---- MODULE Spec2Model ----
(***************************************************************************)
(* The response-normalization layer of the TSLA sentiment pipeline: the    *)
(* n8n/Apify Twitter collector, the browser Twitter collector, the Reddit  *)
(* collector, the DuckDuckGo news source and BrowserClient/collect_articles.*)
(* One run of one collector is one behaviour: the external call, then the  *)
(* normalization of what it returned, one raw record per step.             *)
(***************************************************************************)
EXTENDS Integers, Sequences, FiniteSets, TLC

VARIABLES
    adapter,    \* which collector this run belongs to
    config,     \* the collector's search configuration (dataclass fields)
    pc,         \* position of the run: start, transform, parsing, done, raised
    call,       \* what the external call (webhook POST / agent run) produced
    raw_list,   \* the list of raw records the per-record loop iterates over
    idx,        \* number of raw records of raw_list already consumed by the loop
    parsed,     \* the output list built so far (tweets / posts / documents)
    seen_ids,   \* identity keys recorded so far by the loop
    error,      \* the exception that left the run, if any
    session_cache,  \* the collector's session cache file (cache/<platform>_session.json)
    storage_state,  \* what the last _load_session_cache() returned
    table       \* the rows of the sink table, by the value of its conflict column

vars == <<adapter, config, pc, call, raw_list, idx, parsed, seen_ids, error,
          session_cache, storage_state, table>>

(***************************************************************************)
(* Bounds                                                                  *)
(***************************************************************************)
MaxBatch == 3

(***************************************************************************)
(* Python strings.  TLA+ strings stand for Python str; the operators below *)
(* compute str.startswith, the `in` substring test, str.split('/'),        *)
(* str.lower and str.strip character by character.                         *)
(***************************************************************************)
CharAt(s, i) == SubSeq(s, i, i)

StartsWith(s, p) == Len(s) >= Len(p) /\ SubSeq(s, 1, Len(p)) = p

Contains(s, sub) ==
    \E i \in 1..(Len(s) - Len(sub) + 1) : SubSeq(s, i, i + Len(sub) - 1) = sub

RECURSIVE SplitFrom(_, _, _, _)
SplitFrom(s, sep, start, i) ==
    IF i > Len(s) THEN <<SubSeq(s, start, Len(s))>>
    ELSE IF CharAt(s, i) = sep
         THEN <<SubSeq(s, start, i - 1)>> \o SplitFrom(s, sep, i + 1, i + 1)
         ELSE SplitFrom(s, sep, start, i + 1)

Split(s, sep) == SplitFrom(s, sep, 1, 1)

LowerChar(c) ==
    CASE c = "A" -> "a" [] c = "B" -> "b" [] c = "C" -> "c" [] c = "D" -> "d"
      [] c = "E" -> "e" [] c = "F" -> "f" [] c = "G" -> "g" [] c = "H" -> "h"
      [] c = "I" -> "i" [] c = "J" -> "j" [] c = "K" -> "k" [] c = "L" -> "l"
      [] c = "M" -> "m" [] c = "N" -> "n" [] c = "O" -> "o" [] c = "P" -> "p"
      [] c = "Q" -> "q" [] c = "R" -> "r" [] c = "S" -> "s" [] c = "T" -> "t"
      [] c = "U" -> "u" [] c = "V" -> "v" [] c = "W" -> "w" [] c = "X" -> "x"
      [] c = "Y" -> "y" [] c = "Z" -> "z" [] OTHER -> c

RECURSIVE LowerFrom(_, _)
LowerFrom(s, i) ==
    IF i > Len(s) THEN "" ELSE LowerChar(CharAt(s, i)) \o LowerFrom(s, i + 1)

Lower(s) == LowerFrom(s, 1)

IsSpace(c) == c = " "

RECURSIVE LStrip(_)
LStrip(s) == IF Len(s) > 0 /\ IsSpace(CharAt(s, 1)) THEN LStrip(Tail(s)) ELSE s

RECURSIVE RStrip(_)
RStrip(s) ==
    IF Len(s) > 0 /\ IsSpace(CharAt(s, Len(s)))
    THEN RStrip(SubSeq(s, 1, Len(s) - 1)) ELSE s

Strip(s) == RStrip(LStrip(s))

(***************************************************************************)
(* Python / JSON values, tagged by type.                                   *)
(***************************************************************************)
PyInt(n) == [t |-> "int", v |-> n]
PyStr(s) == [t |-> "str", v |-> s]
PyNone == [t |-> "none"]
PyList(items) == [t |-> "list", v |-> items]
PyDict(f) == [t |-> "dict", v |-> f]

\* an instance of an adapter's pydantic batch model (TweetBatch, PostBatch, ArticleList)
Typed(batch) == [t |-> "batch", v |-> batch]

\* bool(value): the truth value Python gives a value in `if value`
Truthy(x) ==
    CASE x.t = "int" -> x.v # 0
      [] x.t = "str" -> x.v # ""
      [] x.t = "none" -> FALSE
      [] x.t = "list" -> x.v # <<>>
      [] x.t = "dict" -> DOMAIN x.v # {}
      [] x.t = "batch" -> TRUE

DigitChar(d) ==
    CASE d = 0 -> "0" [] d = 1 -> "1" [] d = 2 -> "2" [] d = 3 -> "3" [] d = 4 -> "4"
      [] d = 5 -> "5" [] d = 6 -> "6" [] d = 7 -> "7" [] d = 8 -> "8" [] d = 9 -> "9"

RECURSIVE NatToStr(_)
NatToStr(n) == IF n < 10 THEN DigitChar(n) ELSE NatToStr(n \div 10) \o DigitChar(n % 10)

\* str(value) for the scalar values a raw record carries
PyStrOf(x) ==
    CASE x.t = "str" -> x.v
      [] x.t = "int" -> IF x.v < 0 THEN "-" \o NatToStr(-x.v) ELSE NatToStr(x.v)
      [] x.t = "none" -> "None"

(***************************************************************************)
(* pydantic HttpUrl: the field type of tweet_url, post_url and document    *)
(* url.  A value validates when it is http:// or https:// followed by a    *)
(* non-empty host; the validated URL has scheme and host in lower case and *)
(* the path "/" when the input names none.                                 *)
(***************************************************************************)
HttpUrlValid(s) ==
    LET parts == Split(s, "/")
    IN  /\ Len(parts) >= 3
        /\ Lower(parts[1]) \in {"http:", "https:"}
        /\ parts[2] = ""
        /\ parts[3] # ""
        /\ ~Contains(parts[3], " ")

RECURSIVE JoinFrom(_, _, _)
JoinFrom(parts, sep, i) ==
    IF i > Len(parts) THEN ""
    ELSE IF i = Len(parts) THEN parts[i]
    ELSE parts[i] \o sep \o JoinFrom(parts, sep, i + 1)

HttpUrl(s) ==
    LET parts == Split(s, "/")
        head == Lower(parts[1]) \o "//" \o Lower(parts[3])
    IN  IF Len(parts) = 3 THEN head \o "/"
        ELSE head \o "/" \o JoinFrom(parts, "/", 4)

(***************************************************************************)
(* Instants are seconds since 2025-10-01T00:00:00Z.  Now is the reading of *)
(* datetime.now(timezone.utc) during the run.  A datetime is its wall-clock *)
(* reading in seconds on the same scale, whether it carries a tzinfo, and   *)
(* the UTC offset of that tzinfo in seconds.                                *)
(***************************************************************************)
Now == 1382400

\* a timezone-aware datetime
Aware(wall, off) == [wall |-> wall, aware |-> TRUE, off |-> off]

\* a naive datetime (tzinfo is None)
Naive(wall) == [wall |-> wall, aware |-> FALSE, off |-> 0]

\* datetime.now(timezone.utc)
NowUtc == Aware(Now, 0)

\* a replace that leaves the datetime as it is
ReplaceTzinfoKept(dt) == dt

\* dt.replace(tzinfo=timezone.utc): the wall-clock reading is kept
ReplaceTzinfoUtc(dt) == Aware(dt.wall, 0)

\* dt.astimezone(timezone.utc) on an aware datetime: the instant is kept
AsTimezoneUtc(dt) == Aware(dt.wall - dt.off, 0)

\* dt - timedelta(seconds=n)
MinusSeconds(dt, n) == [dt EXCEPT !.wall = @ - n]

\* a < b on two aware datetimes
Before(a, b) == a.wall - a.off < b.wall - b.off

\* app.domain.validators.ensure_timezone
ensure_timezone(dt) == IF ~dt.aware THEN ReplaceTzinfoUtc(dt) ELSE AsTimezoneUtc(dt)

\* datetime.fromisoformat on the absolute timestamp strings the raw records carry
IsoInstants ==
    ("2025-10-16T12:00:00.000+00:00" :> Aware(1339200, 0))
    @@ ("2025-10-16T12:00:00+00:00" :> Aware(1339200, 0))
    @@ ("2025-09-01T00:00:00+00:00" :> Aware(-2592000, 0))
    @@ ("2025-10-10T00:00:00+00:00" :> Aware(777600, 0))
    @@ ("2025-10-10T01:00:00+02:00" :> Aware(781200, 7200))
    @@ ("2025-10-16T14:00:00+02:00" :> Aware(1346400, 7200))
    @@ ("2025-10-16T12:00:00" :> Naive(1339200))

FromIsoFormatOk(s) == s \in DOMAIN IsoInstants

FromIsoFormat(s) == IsoInstants[s]

(***************************************************************************)
(* N8nTwitterCollector (app/adapters/n8n_twitter_source.py)                *)
(***************************************************************************)
Raise(kind, msg) == [ok |-> FALSE, err |-> kind, msg |-> msg]

Return(value) == [ok |-> TRUE, value |-> value]

RECURSIVE RStripSlash(_)
RStripSlash(s) ==
    IF Len(s) > 0 /\ CharAt(s, Len(s)) = "/" THEN RStripSlash(SubSeq(s, 1, Len(s) - 1)) ELSE s

WebhookUrl(base_url) == RStripSlash(base_url) \o "/webhook/twitter-scraper"

\* response.text.strip() is empty
ResponseTextBlank(body) == body.t = "text" /\ Strip(body.v) = ""

\* response.json() succeeds
ResponseIsJson(body) == body.t = "json"

\* a status branch that rejects only 401, 404 and the 5xx family
StatusErrorKnownOnly(status, url) ==
    IF status = 401
    THEN "Authentication failed. Webhooks don't need API keys, check if webhook is active."
    ELSE IF status = 404 THEN "Webhook not found. Check webhook URL: " \o url
    ELSE IF status >= 500
    THEN "n8n server error (status " \o NatToStr(status) \o "). Try again later."
    ELSE ""

\* the status branch of _call_n8n_workflow; "" when the status is accepted
StatusError(status, url) ==
    IF status = 401
    THEN "Authentication failed. Webhooks don't need API keys, check if webhook is active."
    ELSE IF status = 404 THEN "Webhook not found. Check webhook URL: " \o url
    ELSE IF status >= 500
    THEN "n8n server error (status " \o NatToStr(status) \o "). Try again later."
    ELSE IF status # 200 THEN "Unexpected response status: " \o NatToStr(status)
    ELSE ""

call_n8n_workflow(cfg, outcome) ==
    LET url == WebhookUrl(cfg.n8n_base_url)
    IN  IF outcome.kind = "timeout"
        THEN Raise("N8nCollectionError",
                   "n8n workflow timed out after " \o NatToStr(cfg.n8n_timeout_seconds) \o " seconds")
        ELSE IF outcome.kind = "network"
        THEN Raise("N8nCollectionError", "Network error calling n8n API: connect failed")
        ELSE IF StatusError(outcome.status, url) # ""
        THEN Raise("N8nCollectionError", StatusError(outcome.status, url))
        ELSE IF ResponseTextBlank(outcome.body)
        THEN Raise("N8nCollectionError", "n8n returned empty response")
        ELSE IF ~ResponseIsJson(outcome.body)
        THEN Raise("N8nCollectionError", "Invalid JSON response from n8n: Expecting value")
        ELSE Return(outcome.body.v)

\* dict.get(key, default)
Get(d, key, default) == IF key \in DOMAIN d THEN d[key] ELSE default

\* `x or 0` on a configured threshold
OrZero(x) == IF x.t = "none" \/ ~Truthy(x) THEN 0 ELSE x.v

\* `counter >= threshold` is defined for numbers only; None or a str raises TypeError
Comparable(x) == x.t = "int"

CounterKeys == <<"replyCount", "likeCount", "retweetCount">>

Counter(tweet, key) == Get(tweet.v, key, PyInt(0))

MeetsCriteriaAny(tweet, cfg) ==
    \/ Counter(tweet, "replyCount").v >= OrZero(cfg.min_replies)
    \/ Counter(tweet, "likeCount").v >= OrZero(cfg.min_faves)
    \/ Counter(tweet, "retweetCount").v >= OrZero(cfg.min_retweets)

MeetsCriteria(tweet, cfg) ==
    /\ Counter(tweet, "replyCount").v >= OrZero(cfg.min_replies)
    /\ Counter(tweet, "likeCount").v >= OrZero(cfg.min_faves)
    /\ Counter(tweet, "retweetCount").v >= OrZero(cfg.min_retweets)

\* the exception one loop iteration of _apply_engagement_filters raises, "" if none
FilterItemError(tweet) ==
    IF tweet.t # "dict" THEN "AttributeError: object has no attribute 'get'"
    ELSE IF \E i \in 1..Len(CounterKeys) : ~Comparable(Counter(tweet, CounterKeys[i]))
    THEN "TypeError: '>=' not supported between instances"
    ELSE ""

RECURSIVE FilterLoop(_, _, _)
FilterLoop(tweets, cfg, acc) ==
    IF tweets = <<>> THEN Return(acc)
    ELSE IF FilterItemError(Head(tweets)) # "" THEN Raise("Exception", FilterItemError(Head(tweets)))
    ELSE FilterLoop(Tail(tweets), cfg,
                    IF MeetsCriteria(Head(tweets), cfg) THEN Append(acc, Head(tweets)) ELSE acc)

apply_engagement_filters(tweets, cfg) ==
    IF tweets.t = "list" THEN FilterLoop(tweets.v, cfg, <<>>)
    ELSE IF tweets.t \in {"str", "dict"}
    THEN Raise("Exception", "AttributeError: object has no attribute 'get'")
    ELSE Raise("Exception", "TypeError: object is not iterable")

\* seq[:n]
SliceTo(seq, n) ==
    IF n >= 0 THEN SubSeq(seq, 1, IF n < Len(seq) THEN n ELSE Len(seq))
    ELSE SubSeq(seq, 1, IF Len(seq) + n > 0 THEN Len(seq) + n ELSE 0)

\* the extraction paths of _extract_tweet_list: the value taken as tweet_list
LocateTweetList(raw_data) ==
    IF raw_data.t = "list" THEN raw_data
    ELSE IF raw_data.t = "dict"
    THEN IF "data" \in DOMAIN raw_data.v
         THEN LET data == raw_data.v["data"]
              IN  IF data.t = "dict" /\ "tweets" \in DOMAIN data.v THEN data.v["tweets"]
                  ELSE IF data.t = "list" THEN data
                  ELSE PyList(<<>>)
         ELSE IF "tweets" \in DOMAIN raw_data.v THEN raw_data.v["tweets"]
         ELSE PyList(<<>>)
    ELSE PyList(<<>>)

extract_tweet_list(raw_data, cfg) ==
    LET tweet_list == LocateTweetList(raw_data)
    IN  IF ~Truthy(tweet_list) THEN Return(<<>>)
        ELSE LET filtered == apply_engagement_filters(tweet_list, cfg)
             IN  IF ~filtered.ok THEN filtered
                 ELSE IF filtered.value # <<>>
                 THEN Return(SliceTo(filtered.value, cfg.target_count))
                 ELSE Return(filtered.value)

\* repr of a list of key names, as an f-string prints it
RECURSIVE KeysRepr(_)
KeysRepr(keys) ==
    IF keys = <<>> THEN ""
    ELSE "'" \o Head(keys) \o "'" \o (IF Len(keys) > 1 THEN ", " ELSE "") \o KeysRepr(Tail(keys))

RECURSIVE FirstTruthy(_, _)
FirstTruthy(d, keys) ==
    IF keys = <<>> THEN PyNone
    ELSE IF Head(keys) \in DOMAIN d /\ Truthy(d[Head(keys)])
         THEN PyStr(PyStrOf(d[Head(keys)]))
         ELSE FirstTruthy(d, Tail(keys))

extract_field_lenient(d, keys, required) == Return(FirstTruthy(d, keys))

extract_field(d, keys, required) ==
    LET found == FirstTruthy(d, keys)
    IN  IF found.t = "none" /\ required
        THEN Raise("ValueError", "Required field not found. Tried keys: [" \o KeysRepr(keys) \o "]")
        ELSE Return(found)

IsDigit(c) == c \in {"0", "1", "2", "3", "4", "5", "6", "7", "8", "9"}

DigitValue(c) ==
    CASE c = "0" -> 0 [] c = "1" -> 1 [] c = "2" -> 2 [] c = "3" -> 3 [] c = "4" -> 4
      [] c = "5" -> 5 [] c = "6" -> 6 [] c = "7" -> 7 [] c = "8" -> 8 [] c = "9" -> 9

IsDigits(s) == Len(s) > 0 /\ \A i \in 1..Len(s) : IsDigit(CharAt(s, i))

RECURSIVE StrToNat(_)
StrToNat(s) ==
    IF Len(s) = 0 THEN 0
    ELSE 10 * StrToNat(SubSeq(s, 1, Len(s) - 1)) + DigitValue(CharAt(s, Len(s)))

\* int(value) succeeds
IntOk(x) == x.t = "int" \/ (x.t = "str" /\ IsDigits(Strip(x.v)))

IntOf(x) == IF x.t = "int" THEN x.v ELSE StrToNat(Strip(x.v))

RECURSIVE extract_int(_, _)
extract_int(d, keys) ==
    IF keys = <<>> THEN PyNone
    ELSE IF Head(keys) \in DOMAIN d /\ IntOk(d[Head(keys)]) THEN PyInt(IntOf(d[Head(keys)]))
    ELSE extract_int(d, Tail(keys))

\* str.split(): the whitespace-separated words
Words(s) == SelectSeq(Split(s, " "), LAMBDA w : w # "")

\* datetime.strptime(s, "%a %b %d %H:%M:%S %z %Y") on the strings the raw records carry
TwitterFormatInstants == ("Thu Oct 16 12:00:00 +0000 2025" :> Aware(1339200, 0))

EndsWith(s, suffix) ==
    Len(s) >= Len(suffix) /\ SubSeq(s, Len(s) - Len(suffix) + 1, Len(s)) = suffix

n8n_parse_timestamp(timestamp_str) ==
    IF Contains(timestamp_str, " +0000 ") /\ Len(Words(timestamp_str)) = 6
    THEN IF timestamp_str \in DOMAIN TwitterFormatInstants
         THEN AsTimezoneUtc(TwitterFormatInstants[timestamp_str])
         ELSE NowUtc
    ELSE LET iso == IF EndsWith(timestamp_str, "Z")
                    THEN SubSeq(timestamp_str, 1, Len(timestamp_str) - 1) \o "+00:00"
                    ELSE timestamp_str
         IN  IF ~FromIsoFormatOk(iso) THEN NowUtc
             ELSE IF ~FromIsoFormat(iso).aware THEN ReplaceTzinfoUtc(FromIsoFormat(iso))
             ELSE AsTimezoneUtc(FromIsoFormat(iso))

\* A str item answers `key in item` with a substring test and fails on item[key];
\* None fails on `key in None`: either way the first required field raises.
parse_single_tweet(raw_tweet) ==
    IF raw_tweet.t # "dict"
    THEN Raise("ValueError", "Required field not found. Tried keys: ['id', 'tweetId', 'tweet_id']")
    ELSE
    LET d == raw_tweet.v
        tweet_id == extract_field(d, <<"id", "tweetId", "tweet_id">>, TRUE)
        tweet_url == extract_field(d, <<"url", "tweetUrl", "tweet_url">>, TRUE)
        text == extract_field(d, <<"text", "fullText", "full_text">>, TRUE)
        timestamp_str == extract_field(d, <<"createdAt", "created_at", "timestamp">>, TRUE)
    IN  IF ~tweet_id.ok THEN tweet_id
        ELSE IF ~tweet_url.ok THEN tweet_url
        ELSE IF ~StartsWith(tweet_url.value.v, "http")
        THEN Raise("ValueError", "Invalid tweet URL: " \o tweet_url.value.v)
        ELSE IF ~text.ok THEN text
        ELSE IF ~timestamp_str.ok THEN timestamp_str
        ELSE IF ~HttpUrlValid(tweet_url.value.v)
        THEN Raise("ValidationError", "tweet_url: invalid URL")
        ELSE Return([tweet_id |-> tweet_id.value.v,
                     tweet_url |-> HttpUrl(tweet_url.value.v),
                     text |-> text.value.v,
                     like_count |-> extract_int(d, <<"likeCount", "like_count", "favoriteCount">>),
                     reply_count |-> extract_int(d, <<"replyCount", "reply_count">>),
                     retweet_count |-> extract_int(d, <<"retweetCount", "retweet_count">>),
                     posted_at |-> n8n_parse_timestamp(timestamp_str.value.v),
                     collected_at |-> NowUtc,
                     raw_payload |-> raw_tweet])

\* `tweet.tweet_id in seen_ids`
IsDuplicateNever(id, seen) == FALSE

IsDuplicate(id, seen) == id \in seen

\* `seen_ids.add(tweet.tweet_id)`, reached only after the tweet was appended
SeenAddSkipped(seen, id) == seen

SeenAdd(seen, id) == seen \cup {id}

(***************************************************************************)
(* Inputs of the n8n collector: the configuration and what the webhook can *)
(* answer.                                                                 *)
(***************************************************************************)
BatchesOf(U) == UNION {[1..n -> U] : n \in 0..MaxBatch}

N8nConfigs ==
    [min_replies : {PyInt(0), PyInt(1)}, min_faves : {PyInt(0), PyInt(1)},
     min_retweets : {PyInt(0), PyInt(1)}, target_count : 1..MaxBatch,
     n8n_base_url : {"https://n8n.example.com/"}, n8n_timeout_seconds : {300}]

IsoStamp == "2025-10-16T12:00:00.000Z"

RawTweet(idkey, id, url, text) ==
    idkey :> id @@ "url" :> PyStr(url) @@ "text" :> PyStr(text) @@ "createdAt" :> PyStr(IsoStamp)

\* the createdAt value of a raw tweet
CreatedAt(stamp) == "createdAt" :> PyStr(stamp)

Counters(r, l, t) == "replyCount" :> r @@ "likeCount" :> l @@ "retweetCount" :> t

N8nRawTweets ==
    { PyDict(RawTweet("id", PyStr("1"), "https://x.com/u/status/1", "a")
             @@ Counters(PyInt(1), PyInt(1), PyInt(1))),
      PyDict(CreatedAt("Thu Oct 16 12:00:00 +0000 2025")
             @@ RawTweet("tweetId", PyInt(1), "https://x.com/u/status/1", "b")),
      PyDict(CreatedAt("2025-10-16T14:00:00+02:00")
             @@ RawTweet("id", PyStr("2"), "https://twitter.com/u/status/2", "a")
             @@ Counters(PyInt(1), PyInt(0), PyInt(1))),
      PyDict(CreatedAt("2025-10-16T12:00:00")
             @@ RawTweet("id", PyStr("2"), "https://evil.example/u/status/2", "b")
             @@ Counters(PyInt(1), PyInt(1), PyInt(0))),
      PyDict(CreatedAt("not-a-date")
             @@ RawTweet("id", PyStr("3"), "https://x.com/u/status/3", "a")
             @@ Counters(PyInt(1), PyInt(1), PyInt(1))),
      PyDict(RawTweet("id", PyStr("2"), "ftp://x.com/u/status/2", "c")
             @@ Counters(PyInt(0), PyInt(1), PyInt(1))),
      PyDict(RawTweet("id", PyStr("1"), "https://x.com/u/status/1", "c")
             @@ Counters(PyInt(1), PyNone, PyInt(1))),
      PyDict("id" :> PyStr("1") @@ "url" :> PyStr("https://x.com/u/status/1")
             @@ "createdAt" :> PyStr(IsoStamp) @@ Counters(PyInt(1), PyInt(1), PyInt(1))),
      PyStr("oops") }

\* the JSON documents the webhook answers with
N8nPayloads ==
    {PyList(b) : b \in BatchesOf(N8nRawTweets)}
    \cup {PyDict("data" :> PyDict("tweets" :> PyList(b) @@ "count" :> PyInt(Len(b)))) :
             b \in {c \in BatchesOf(N8nRawTweets) : Len(c) <= 1}}
    \cup {PyDict("tweets" :> PyList(b) @@ "status" :> PyStr("ok")) :
             b \in {c \in BatchesOf(N8nRawTweets) : Len(c) <= 1}}
    \cup {PyDict("data" :> PyList(b)) : b \in {c \in BatchesOf(N8nRawTweets) : Len(c) <= 1}}
    \cup {PyDict("data" :> PyDict("status" :> PyStr("ok")) @@ "tweets" :> PyList(b)) :
             b \in {c \in BatchesOf(N8nRawTweets) : Len(c) = 1}}
    \cup {PyDict("message" :> PyStr("Workflow was started")), PyNone, PyStr("ok")}

HttpStatuses == {200, 201, 204, 302, 401, 404, 429, 500, 503}

NonJsonBodies == {[t |-> "text", v |-> ""], [t |-> "text", v |-> "  "],
                  [t |-> "text", v |-> "<html>Bad Gateway</html>"]}

N8nOutcomes ==
    {[kind |-> "timeout"], [kind |-> "network"]}
    \cup {[kind |-> "response", status |-> 200, body |-> [t |-> "json", v |-> j]] : j \in N8nPayloads}
    \cup {[kind |-> "response", status |-> st, body |-> b] : st \in HttpStatuses, b \in NonJsonBodies}
    \cup {[kind |-> "response", status |-> st, body |-> [t |-> "json", v |-> PyList(<<>>)]] :
             st \in HttpStatuses}

NoCall == [kind |-> "none"]

NoError == [type |-> "none", msg |-> ""]

\* no session cache file on disk; a sink table without rows
NoFile == [exists |-> FALSE]

NoRows == <<>>

(***************************************************************************)
(* N8nTwitterCollector.collect                                             *)
(***************************************************************************)
CollectWrap(msg) ==
    [type |-> "N8nCollectionError", msg |-> "Failed to collect tweets via n8n: " \o msg]

\* raw_data = await self._call_n8n_workflow()
N8nCall ==
    /\ adapter = "n8n"
    /\ pc = "start"
    /\ \E outcome \in N8nOutcomes :
        LET r == call_n8n_workflow(config, outcome)
        IN  /\ call' = outcome
            /\ pc' = IF r.ok THEN "transform" ELSE "raised"
            /\ error' = IF r.ok THEN error ELSE CollectWrap(r.msg)
    /\ UNCHANGED <<adapter, config, raw_list, idx, parsed, seen_ids>>
    /\ UNCHANGED <<session_cache, storage_state, table>>

\* _transform_apify_to_tweets up to its loop: tweet_list = self._extract_tweet_list(raw_data)
N8nExtractTweetList ==
    /\ adapter = "n8n"
    /\ pc = "transform"
    /\ LET r == extract_tweet_list(call.body.v, config)
       IN  /\ pc' = IF ~r.ok THEN "raised" ELSE IF r.value = <<>> THEN "done" ELSE "parsing"
           /\ error' = IF r.ok THEN error ELSE CollectWrap(r.msg)
           /\ raw_list' = IF r.ok THEN r.value ELSE raw_list
    /\ idx' = 0
    /\ parsed' = <<>>
    /\ seen_ids' = {}
    /\ UNCHANGED <<adapter, config, call>>
    /\ UNCHANGED <<session_cache, storage_state, table>>

\* one iteration of the loop of _transform_apify_to_tweets; the loop's end returns tweets
N8nParseTweet ==
    /\ adapter = "n8n"
    /\ pc = "parsing"
    /\ idx < Len(raw_list)
    /\ LET r == parse_single_tweet(raw_list[idx + 1])
           accept == r.ok /\ ~IsDuplicate(r.value.tweet_id, seen_ids)
       IN  /\ parsed' = IF accept THEN Append(parsed, r.value) ELSE parsed
           /\ seen_ids' = IF accept THEN SeenAdd(seen_ids, r.value.tweet_id) ELSE seen_ids
    /\ idx' = idx + 1
    /\ pc' = IF idx + 1 = Len(raw_list) THEN "done" ELSE "parsing"
    /\ UNCHANGED <<adapter, config, call, raw_list, error>>
    /\ UNCHANGED <<session_cache, storage_state, table>>

InitN8n ==
    /\ adapter = "n8n"
    /\ config \in N8nConfigs
    /\ pc = "start"
    /\ call = NoCall
    /\ raw_list = <<>>
    /\ idx = 0
    /\ parsed = <<>>
    /\ seen_ids = {}
    /\ error = NoError
    /\ session_cache = NoFile
    /\ storage_state = PyNone
    /\ table = NoRows

NextN8n == N8nCall \/ N8nExtractTweetList \/ N8nParseTweet

SpecN8n == InitN8n /\ [][NextN8n]_vars

(***************************************************************************)
(* TwitterCollector (app/adapters/twitter_source.py)                       *)
(***************************************************************************)
\* "".join(ch for ch in ts if ch.isdigit())
RECURSIVE DigitsOf(_)
DigitsOf(s) ==
    IF Len(s) = 0 THEN ""
    ELSE (IF IsDigit(CharAt(s, 1)) THEN CharAt(s, 1) ELSE "") \o DigitsOf(Tail(s))

HasDigit(s) == \E i \in 1..Len(s) : IsDigit(CharAt(s, i))

\* dateutil.parser.parse on the absolute timestamp strings the raw records carry
DateutilInstants ==
    ("2025-10-16T12:00:00.000Z" :> Aware(1339200, 0))
    @@ ("2025-10-16T12:00:00Z" :> Aware(1339200, 0))
    @@ ("2025-10-16T14:00:00+02:00" :> Aware(1346400, 7200))
    @@ ("2025-10-16 12:00:00" :> Naive(1339200))

\* now - timedelta(<unit>=int(digits)); int("") raises ValueError, which returns None
RelativeAgo(ts, unit_seconds) ==
    IF DigitsOf(ts) = "" THEN Raise("ValueError", "invalid literal for int()")
    ELSE Return(MinusSeconds(NowUtc, StrToNat(DigitsOf(ts)) * unit_seconds))

\* Return(instant), or not ok where the method returns None
twitter_parse_timestamp(timestamp) ==
    IF timestamp = "" THEN Raise("None", "")
    ELSE
    LET ts == Strip(timestamp)
        lower == Lower(ts)
    IN  IF Contains(lower, "s") /\ HasDigit(lower) THEN RelativeAgo(ts, 1)
        ELSE IF Contains(lower, "min") \/ Contains(lower, "m") THEN RelativeAgo(ts, 60)
        ELSE IF Contains(lower, "hour") \/ Contains(lower, "hr") \/ Contains(lower, "h")
        THEN RelativeAgo(ts, 3600)
        ELSE IF Contains(lower, "day") \/ Contains(lower, "d") THEN RelativeAgo(ts, 86400)
        ELSE IF Contains(lower, "week") \/ Contains(lower, "wk") \/ Contains(lower, "w")
        THEN RelativeAgo(ts, 604800)
        ELSE IF ts \in DOMAIN DateutilInstants
        THEN Return(AsTimezoneUtc(IF ~DateutilInstants[ts].aware
                                  THEN ReplaceTzinfoUtc(DateutilInstants[ts])
                                  ELSE DateutilInstants[ts]))
        ELSE Raise("ParserError", "Unknown string format")

\* One iteration of the loop of TwitterCollector._parse_result on an ExtractedTweet:
\* Return(tweet) when the tweet is appended, not ok when the iteration continues.
twitter_parse_tweet(tweet, seen) ==
    IF tweet.tweet_url = "" \/ ~StartsWith(tweet.tweet_url, "http") THEN Raise("skip", "url")
    ELSE IF IsDuplicate(tweet.tweet_id, seen) THEN Raise("skip", "duplicate")
    ELSE IF ~twitter_parse_timestamp(tweet.timestamp).ok THEN Raise("skip", "timestamp")
    ELSE IF ~HttpUrlValid(tweet.tweet_url) THEN Raise("ValidationError", "tweet_url: invalid URL")
    ELSE Return([tweet_id |-> tweet.tweet_id,
                 tweet_url |-> HttpUrl(tweet.tweet_url),
                 text |-> tweet.text,
                 like_count |-> tweet.like_count,
                 reply_count |-> PyNone,
                 retweet_count |-> PyNone,
                 posted_at |-> twitter_parse_timestamp(tweet.timestamp).value,
                 collected_at |-> NowUtc,
                 raw_payload |-> PyNone])

ExtractedTweet(id, url, text, ts) ==
    [tweet_id |-> id, tweet_url |-> url, text |-> text, timestamp |-> ts, like_count |-> PyNone]

ExtractedTweets ==
    { ExtractedTweet("1", "https://x.com/u/status/1", "a", IsoStamp),
      ExtractedTweet("1", "https://x.com/u/status/1", "b", "2h"),
      ExtractedTweet("1", "https://x.com/u/status/1", "c", "not-a-date"),
      ExtractedTweet("2", "https://twitter.com/u/status/2", "a", "2025-10-16T14:00:00+02:00"),
      ExtractedTweet("2", "https://evil.example/u/status/2", "b", "2025-10-16 12:00:00"),
      ExtractedTweet("2", "ftp://x.com/u/status/2", "c", IsoStamp),
      ExtractedTweet("2", "http", "d", IsoStamp),
      ExtractedTweet("1", "", "d", IsoStamp) }

\* What `await agent.run(...)` gives: an exception, or a result object whose
\* history.structured_output and final_result() hold the values named here.
AgentFailures == {[kind |-> "exception", msg |-> "Browser closed unexpectedly"],
                  [kind |-> "exception", msg |-> "Timeout waiting for page"]}

AgentResult(structured_output, final_result) ==
    [kind |-> "result", structured_output |-> structured_output, final_result |-> final_result]

TwitterOutcomes ==
    AgentFailures
    \cup {AgentResult(Typed(b), PyNone) : b \in BatchesOf(ExtractedTweets)}
    \cup {AgentResult(PyNone, PyDict("tweets" :> PyList(b))) :
             b \in {c \in BatchesOf(ExtractedTweets) : Len(c) <= 1}}
    \cup {AgentResult(PyNone, PyDict("tweets" :> PyStr("n/a")))}
    \cup {AgentResult(PyNone, Typed(b)) : b \in {c \in BatchesOf(ExtractedTweets) : Len(c) <= 1}}
    \cup {AgentResult(PyNone, PyNone), AgentResult(PyNone, PyStr("done"))}
    \cup {AgentResult(Typed(b), Typed(c)) :
             b \in {d \in BatchesOf(ExtractedTweets) : Len(d) = 1},
             c \in {d \in BatchesOf(ExtractedTweets) : Len(d) = 1}}
    \cup {AgentResult(PyStr("partial"), Typed(b)) : b \in {c \in BatchesOf(ExtractedTweets) : Len(c) = 1}}
    \cup {AgentResult(PyNone, PyStr(text)) :
             text \in {"{\"tweets\": [{\"tweet_id\": \"1\"}]}"}}

\* TweetBatch(**mapping) / PostBatch(**mapping) / ArticleList(**mapping): pydantic
\* validation of the container key's value, whose items are already typed here
BatchModel(value) ==
    IF value.t = "list" THEN Return(value.v)
    ELSE Raise("ValidationError", "Input should be a valid list")

\* the locator at the head of TwitterCollector._parse_result: Return(raw_batch),
\* err "None" when raw_batch stays None, any other err for an exception
twitter_locate(result) ==
    IF Truthy(result.structured_output) /\ result.structured_output.t = "batch"
    THEN Return(result.structured_output.v)
    ELSE IF result.final_result.t = "batch" THEN Return(result.final_result.v)
    ELSE IF result.final_result.t = "dict" /\ "tweets" \in DOMAIN result.final_result.v
    THEN BatchModel(result.final_result.v["tweets"])
    ELSE Raise("None", "No structured tweets returned from Browser Use")

\* result = await agent.run(max_steps=max_steps)
TwitterCall ==
    /\ adapter = "twitter"
    /\ pc = "start"
    /\ \E outcome \in TwitterOutcomes :
        /\ call' = outcome
        /\ pc' = IF outcome.kind = "result" THEN "transform" ELSE "raised"
        /\ error' = IF outcome.kind = "result" THEN error
                    ELSE [type |-> "TwitterCollectionError",
                          msg |-> "Failed to collect tweets: " \o outcome.msg]
    /\ UNCHANGED <<adapter, config, raw_list, idx, parsed, seen_ids>>
    /\ UNCHANGED <<session_cache, storage_state, table>>

\* _parse_result up to its loop; an exception there leaves collect() wrapped
TwitterLocate ==
    /\ adapter = "twitter"
    /\ pc = "transform"
    /\ LET r == twitter_locate(call)
       IN  /\ pc' = IF r.ok THEN (IF r.value # <<>> THEN "parsing" ELSE "done")
                    ELSE IF r.err = "None" THEN "done" ELSE "raised"
           /\ raw_list' = IF r.ok THEN r.value ELSE <<>>
           /\ error' = IF r.ok \/ r.err = "None" THEN error
                       ELSE [type |-> "TwitterCollectionError",
                             msg |-> "Failed to collect tweets: " \o r.msg]
    /\ idx' = 0
    /\ parsed' = <<>>
    /\ seen_ids' = {}
    /\ UNCHANGED <<adapter, config, call>>
    /\ UNCHANGED <<session_cache, storage_state, table>>

\* one iteration of the loop of _parse_result; the loop's end returns parsed
TwitterParseTweet ==
    /\ adapter = "twitter"
    /\ pc = "parsing"
    /\ idx < Len(raw_list)
    /\ LET r == twitter_parse_tweet(raw_list[idx + 1], seen_ids)
       IN  /\ parsed' = IF r.ok THEN Append(parsed, r.value) ELSE parsed
           /\ seen_ids' = IF r.ok THEN SeenAdd(seen_ids, r.value.tweet_id) ELSE seen_ids
    /\ idx' = idx + 1
    /\ pc' = IF idx + 1 = Len(raw_list) THEN "done" ELSE "parsing"
    /\ UNCHANGED <<adapter, config, call, raw_list, error>>
    /\ UNCHANGED <<session_cache, storage_state, table>>

NoConfig == [none |-> TRUE]

InitTwitter ==
    /\ adapter = "twitter"
    /\ config = NoConfig
    /\ pc = "start"
    /\ call = NoCall
    /\ raw_list = <<>>
    /\ idx = 0
    /\ parsed = <<>>
    /\ seen_ids = {}
    /\ error = NoError
    /\ session_cache = NoFile
    /\ storage_state = PyNone
    /\ table = NoRows

NextTwitter == TwitterCall \/ TwitterLocate \/ TwitterParseTweet

SpecTwitter == InitTwitter /\ [][NextTwitter]_vars

(***************************************************************************)
(* RedditCollector (app/adapters/reddit_source.py)                         *)
(***************************************************************************)
\* str.replace("Z", "+00:00")
RECURSIVE ReplaceZ(_)
ReplaceZ(s) ==
    IF Len(s) = 0 THEN ""
    ELSE (IF CharAt(s, 1) = "Z" THEN "+00:00" ELSE CharAt(s, 1)) \o ReplaceZ(Tail(s))

\* Return(instant), or not ok where the method returns None
reddit_parse_timestamp(ts_str) ==
    IF ts_str = "" THEN Raise("None", "")
    ELSE IF FromIsoFormatOk(ReplaceZ(ts_str))
    THEN Return(AsTimezoneUtc(IF ~FromIsoFormat(ReplaceZ(ts_str)).aware
                              THEN ReplaceTzinfoUtc(FromIsoFormat(ReplaceZ(ts_str)))
                              ELSE FromIsoFormat(ReplaceZ(ts_str))))
    ELSE Raise("None", "Invalid isoformat string")

OneWeek == 604800

\* `"xyz" in post.post_url or "abc456" in post.post_url`
IsPlaceholderUrl(post_url) == Contains(post_url, "xyz") \/ Contains(post_url, "abc456")

\* `actual_subreddit != self.config.subreddit.lower()` with actual_subreddit lower-cased
SubredditDiffersExact(segment, subreddit) == segment # subreddit

SubredditDiffers(segment, subreddit) == Lower(segment) # Lower(subreddit)

\* a fallback that substitutes the start of the time scale
PostedAtOrEpoch(stamp) == IF stamp.ok THEN stamp.value ELSE Aware(0, 0)

\* `if not posted_at: posted_at = now`
PostedAtOrNow(stamp) == IF stamp.ok THEN stamp.value ELSE NowUtc

\* a cut-off of fourteen days
TooOldTwoWeeks(post, posted_at) ==
    post.timestamp # "" /\ Before(posted_at, MinusSeconds(NowUtc, 2 * OneWeek))

\* `if post.timestamp and posted_at < one_week_ago`
TooOld(post, posted_at) ==
    post.timestamp # "" /\ Before(posted_at, MinusSeconds(NowUtc, OneWeek))

\* One iteration of the loop of RedditCollector._parse_result on an ExtractedPost:
\* Return(post) when the post is appended, not ok when the iteration is skipped.
reddit_parse_post(post, cfg) ==
    IF post.post_id = "" \/ post.post_url = "" \/ post.title = "" THEN Raise("skip", "empty field")
    ELSE
    LET stamp == IF post.timestamp # "" THEN reddit_parse_timestamp(post.timestamp)
                 ELSE Raise("None", "")
        posted_at == PostedAtOrNow(stamp)
        url_parts == Split(post.post_url, "/")
    IN  IF TooOld(post, posted_at)
        THEN Raise("skip", "too old")
        ELSE IF ~StartsWith(post.post_url, "https://old.reddit.com/r/")
                \/ IsPlaceholderUrl(post.post_url)
        THEN Raise("skip", "invalid/fake URL")
        ELSE IF ~(Len(url_parts) >= 5 /\ url_parts[4] = "r")
        THEN Raise("skip", "could not extract subreddit from URL")
        ELSE IF SubredditDiffers(url_parts[5], cfg.subreddit) THEN Raise("skip", "subreddit")
        ELSE IF ~HttpUrlValid(post.post_url) THEN Raise("ValidationError", "post_url: invalid URL")
        ELSE Return([post_id |-> post.post_id,
                     post_url |-> HttpUrl(post.post_url),
                     subreddit |-> cfg.subreddit,
                     title |-> post.title,
                     posted_at |-> posted_at,
                     collected_at |-> NowUtc])

ExtractedPost(id, url, title, ts) ==
    [post_id |-> id, post_url |-> url, title |-> title, timestamp |-> ts]

ExtractedPosts ==
    { ExtractedPost("1o5orwk", "https://old.reddit.com/r/wallstreetbets/comments/1o5orwk/tsla/",
                    "a", IsoStamp),
      ExtractedPost("1o5orwk", "https://old.reddit.com/r/WallStreetBets/comments/1o5orwk/tsla/",
                    "b", "2 hours ago"),
      ExtractedPost("1o5abcd", "https://old.reddit.com/r/technology/comments/1o5abcd/ev/",
                    "a", IsoStamp),
      ExtractedPost("1", "https://old.reddit.com/r/wallstreetbets/comments/1/", "a", ""),
      ExtractedPost("xyz123", "https://old.reddit.com/r/wallstreetbets/comments/xyz123/",
                    "a", IsoStamp),
      ExtractedPost("abc456", "https://old.reddit.com/r/wallstreetbets/comments/1o5orwk/tsla/",
                    "c", "2025-10-16T14:00:00+02:00"),
      ExtractedPost("1o5orwk", "https://www.reddit.com/r/wallstreetbets/comments/1o5orwk/tsla/",
                    "a", IsoStamp),
      ExtractedPost("1o5old", "https://old.reddit.com/r/wallstreetbets/comments/1o5old/old/",
                    "a", "2025-09-01T00:00:00Z"),
      ExtractedPost("1o5wk", "https://old.reddit.com/r/wallstreetbets/comments/1o5wk/week/",
                    "a", "2025-10-10T00:00:00Z"),
      ExtractedPost("1o5wk1", "https://old.reddit.com/r/wallstreetbets/comments/1o5wk1/week/",
                    "a", "2025-10-10T01:00:00+02:00"),
      ExtractedPost("1o5orwk", "https://old.reddit.com/r/wallstreetbets/comments/1o5orwk/tsla/",
                    "", IsoStamp) }

RedditConfigs == [subreddit : {"wallstreetbets", "WallStreetBets"}]

RedditOutcomes ==
    AgentFailures
    \cup {AgentResult(Typed(b), PyNone) : b \in BatchesOf(ExtractedPosts)}
    \cup {AgentResult(PyList(<<Typed(<<>>), Typed(b)>>), PyNone) :
             b \in {c \in BatchesOf(ExtractedPosts) : Len(c) = 1}}
    \cup {AgentResult(PyNone, PyDict("posts" :> PyList(b))) :
             b \in {c \in BatchesOf(ExtractedPosts) : Len(c) <= 1}}
    \cup {AgentResult(PyNone, Typed(b)) : b \in {c \in BatchesOf(ExtractedPosts) : Len(c) <= 1}}
    \cup {AgentResult(PyNone, PyDict("posts" :> PyStr("n/a"))),
          AgentResult(PyNone, PyNone), AgentResult(PyNone, PyStr("done")),
          AgentResult(PyNone, PyStr("[]"))}
    \cup {AgentResult(Typed(b), Typed(c)) :
             b \in {d \in BatchesOf(ExtractedPosts) : Len(d) = 1},
             c \in {d \in BatchesOf(ExtractedPosts) : Len(d) = 1}}
    \cup {AgentResult(PyStr("partial"), Typed(b)) : b \in {c \in BatchesOf(ExtractedPosts) : Len(c) = 1}}
    \cup {AgentResult(PyNone, PyStr(text)) :
             text \in {"{\"posts\": [{\"post_id\": \"xyz123\"}]}"}}

\* json.loads on the strings an agent run ends with
JsonDocuments ==
    ("[]" :> PyList(<<>>)) @@ ("{}" :> PyDict(<<>>))
    @@ ("{\"tweets\": [{\"tweet_id\": \"1\"}]}" :>
           PyDict("tweets" :> PyList(<<[tweet_id |-> "1", tweet_url |-> "https://x.com/u/status/1",
                                       text |-> "a", timestamp |-> "2025-10-16T12:00:00.000Z",
                                       like_count |-> PyNone]>>)))
    @@ ("{\"posts\": [{\"post_id\": \"xyz123\"}]}" :>
           PyDict("posts" :> PyList(<<[post_id |-> "xyz123",
                                      post_url |-> "https://old.reddit.com/r/wallstreetbets/comments/xyz123/",
                                      title |-> "a", timestamp |-> "2025-10-16T12:00:00.000Z"]>>)))
    @@ ("{\"articles\": [{\"title\": \"Tesla Q3\"}]}" :>
           PyDict("articles" :> PyList(<<[title |-> "Tesla Q3", url |-> "https://news.example/a",
                                         date_text |-> "2 hours ago", summary |-> "s"]>>)))

\* `"posts" in data` for the value json.loads returned
KeyIn(key, data) ==
    CASE data.t = "dict" -> key \in DOMAIN data.v
      [] data.t = "list" -> \E i \in 1..Len(data.v) : data.v[i] = PyStr(key)
      [] data.t = "str" -> Contains(data.v, key)
      [] OTHER -> FALSE

\* the locator at the head of RedditCollector._parse_result: Return(raw_batch),
\* not ok when raw_batch stays None (exceptions of Method 2 are swallowed)
reddit_locate(result) ==
    LET structured == result.structured_output
        final == result.final_result
        method1 ==
            IF structured.t = "batch" THEN Return(structured.v)
            ELSE IF structured.t = "list" /\ Len(structured.v) > 0
                    /\ structured.v[Len(structured.v)].t = "batch"
            THEN Return(structured.v[Len(structured.v)].v)
            ELSE Raise("None", "")
    IN  IF method1.ok THEN method1
        ELSE IF final.t = "batch" THEN Return(final.v)
        ELSE IF final.t = "dict" /\ "posts" \in DOMAIN final.v
        THEN (IF BatchModel(final.v["posts"]).ok THEN BatchModel(final.v["posts"])
              ELSE Raise("None", ""))
        ELSE IF final.t = "str" /\ final.v \in DOMAIN JsonDocuments
                /\ KeyIn("posts", JsonDocuments[final.v])
                /\ JsonDocuments[final.v].t = "dict"
                /\ BatchModel(JsonDocuments[final.v].v["posts"]).ok
        THEN BatchModel(JsonDocuments[final.v].v["posts"])
        ELSE Raise("None", "No structured output found")

\* result = await agent.run(max_steps=max_steps)
RedditCall ==
    /\ adapter = "reddit"
    /\ pc = "start"
    /\ \E outcome \in RedditOutcomes :
        /\ call' = outcome
        /\ pc' = IF outcome.kind = "result" THEN "transform" ELSE "raised"
        /\ error' = IF outcome.kind = "result" THEN error
                    ELSE [type |-> "RedditCollectionError",
                          msg |-> "Failed to collect Reddit posts: " \o outcome.msg]
    /\ UNCHANGED <<adapter, config, raw_list, idx, parsed, seen_ids>>
    /\ UNCHANGED <<session_cache, storage_state, table>>

\* _parse_result up to its loop
RedditLocate ==
    /\ adapter = "reddit"
    /\ pc = "transform"
    /\ LET r == reddit_locate(call)
       IN  /\ pc' = IF r.ok /\ r.value # <<>> THEN "parsing" ELSE "done"
           /\ raw_list' = IF r.ok THEN r.value ELSE <<>>
    /\ idx' = 0
    /\ parsed' = <<>>
    /\ UNCHANGED <<adapter, config, call, seen_ids, error>>
    /\ UNCHANGED <<session_cache, storage_state, table>>

\* one iteration of the loop of _parse_result; the loop's end returns parsed
RedditParsePost ==
    /\ adapter = "reddit"
    /\ pc = "parsing"
    /\ idx < Len(raw_list)
    /\ LET r == reddit_parse_post(raw_list[idx + 1], config)
       IN  parsed' = IF r.ok THEN Append(parsed, r.value) ELSE parsed
    /\ idx' = idx + 1
    /\ pc' = IF idx + 1 = Len(raw_list) THEN "done" ELSE "parsing"
    /\ UNCHANGED <<adapter, config, call, raw_list, seen_ids, error>>
    /\ UNCHANGED <<session_cache, storage_state, table>>

InitReddit ==
    /\ adapter = "reddit"
    /\ config \in RedditConfigs
    /\ pc = "start"
    /\ call = NoCall
    /\ raw_list = <<>>
    /\ idx = 0
    /\ parsed = <<>>
    /\ seen_ids = {}
    /\ error = NoError
    /\ session_cache = NoFile
    /\ storage_state = PyNone
    /\ table = NoRows

NextReddit == RedditCall \/ RedditLocate \/ RedditParsePost

SpecReddit == InitReddit /\ [][NextReddit]_vars

(***************************************************************************)
(* DuckDuckGoNewsSource (app/adapters/news_sources.py)                     *)
(***************************************************************************)
\* dateutil.parser.parse(date_text, fuzzy=True) on the date texts the articles carry
FuzzyInstants ==
    ("Oct 16, 2025" :> Naive(1296000))
    @@ ("2025-10-16T12:00:00.000Z" :> Aware(1339200, 0))
    @@ ("2025-10-16T14:00:00+02:00" :> Aware(1346400, 7200))

\* int("".join(filter(str.isdigit, date_text))) units before now; ValueError gives now
NewsRelativeAgo(date_text, unit_seconds) ==
    IF DigitsOf(date_text) = "" THEN NowUtc
    ELSE MinusSeconds(NowUtc, StrToNat(DigitsOf(date_text)) * unit_seconds)

\* parser.parse(date_text, fuzzy=True) reads '<N> minute(s)' and '<N> second(s)' as a
\* time of day and completes it with the default date: today, local time, at 00:00.
\* The seconds after midnight it reads off the phrases:
FuzzyClockTimes ==
    ("1 second ago" :> 1) @@ ("30 seconds ago" :> 30)
    @@ ("1 minute ago" :> 60) @@ ("5 minutes ago" :> 300)

\* today at 00:00 as datetime.now() of the host's zone dates it: Now is a UTC midnight,
\* so the local date is that day east of Greenwich and the day before west of it
LocalMidnights == {Now, Now - 86400}

news_parse_date(date_text, today) ==
    LET date_lower == Strip(Lower(date_text))
    IN  IF Contains(date_lower, "hour") \/ Contains(date_lower, "hr")
        THEN NewsRelativeAgo(date_text, 3600)
        ELSE IF Contains(date_lower, "day") THEN NewsRelativeAgo(date_text, 86400)
        ELSE IF Contains(date_lower, "week") THEN NewsRelativeAgo(date_text, 604800)
        ELSE IF date_text \in DOMAIN FuzzyInstants
        THEN ReplaceTzinfoUtc(FuzzyInstants[date_text])
        ELSE IF date_text \in DOMAIN FuzzyClockTimes
        THEN ReplaceTzinfoUtc(Naive(today + FuzzyClockTimes[date_text]))
        ELSE NowUtc

MinUrlLen == 10

TitlePlaceholders == {"", "N/A", "Not provided", "Not provided."}

SummaryPlaceholders == {"Not provided", "Not provided.", "N/A", ""}

\* One iteration of the loop of DuckDuckGoNewsSource._parse_result on an ExtractedArticle:
\* Return(document) when the document is appended, not ok when the iteration is skipped.
news_parse_article(article, today) ==
    LET url == Strip(article.url)
    IN  IF url = "" \/ ~StartsWith(url, "http") \/ Len(url) < MinUrlLen
        THEN Raise("skip", "invalid/empty URL")
        ELSE IF article.title = "" \/ Strip(article.title) \in TitlePlaceholders
        THEN Raise("skip", "missing title")
        ELSE IF ~HttpUrlValid(url) THEN Raise("ValidationError", "url: invalid URL")
        ELSE Return([url |-> HttpUrl(url),
                     title |-> article.title,
                     text |-> IF article.summary \in SummaryPlaceholders
                              THEN article.title ELSE article.summary,
                     source |-> "duckduckgo",
                     published_at |-> ensure_timezone(news_parse_date(article.date_text, today))])

ExtractedArticle(title, url, date_text, summary) ==
    [title |-> title, url |-> url, date_text |-> date_text, summary |-> summary]

ExtractedArticles ==
    { ExtractedArticle("Tesla Q3", "https://news.example/a", "2 hours ago", "s"),
      ExtractedArticle("Tesla Q3 again", "https://news.example/a", "recent", "N/A"),
      ExtractedArticle("Tesla recall", "https://news.example/b", "Oct 16, 2025", "s"),
      ExtractedArticle("N/A", "https://news.example/c", "1 day ago", "s"),
      ExtractedArticle("Tesla", "http://a", "recent", "s"),
      ExtractedArticle("Tesla Q3 update", " https://news.example/a ",
                       "2025-10-16T14:00:00+02:00", "s"),
      ExtractedArticle("Tesla", "ftp://news.example/a", "recent", "s") }

NewsOutcomes ==
    AgentFailures
    \cup {AgentResult(Typed(b), PyNone) : b \in BatchesOf(ExtractedArticles)}
    \cup {AgentResult(PyNone, PyDict("articles" :> PyList(b))) :
             b \in {c \in BatchesOf(ExtractedArticles) : Len(c) <= 1}}
    \cup {AgentResult(PyNone, Typed(b)) : b \in {c \in BatchesOf(ExtractedArticles) : Len(c) <= 1}}
    \cup {AgentResult(PyNone, PyDict("articles" :> PyStr("n/a"))),
          AgentResult(PyNone, PyNone), AgentResult(PyNone, PyStr("done")),
          AgentResult(PyList(<<Typed(<<>>)>>), PyNone)}
    \cup {AgentResult(Typed(b), Typed(c)) :
             b \in {d \in BatchesOf(ExtractedArticles) : Len(d) = 1},
             c \in {d \in BatchesOf(ExtractedArticles) : Len(d) = 1}}
    \cup {AgentResult(PyStr("partial"), Typed(b)) : b \in {c \in BatchesOf(ExtractedArticles) : Len(c) = 1}}
    \cup {AgentResult(PyNone, PyStr(text)) :
             text \in {"{\"articles\": [{\"title\": \"Tesla Q3\"}]}"}}

\* the locator at the head of DuckDuckGoNewsSource._parse_result: Return(articles),
\* err "None" when nothing is found, any other err for an exception that leaves _parse_result
news_locate(result) ==
    LET final == result.final_result
        from_final ==
            IF final.t = "batch" THEN Return(final.v)
            ELSE IF final.t = "dict" /\ "articles" \in DOMAIN final.v
            THEN (IF BatchModel(final.v["articles"]).ok THEN BatchModel(final.v["articles"])
                  ELSE Raise("None", ""))
            ELSE IF final.t = "str" /\ final.v \in DOMAIN JsonDocuments
                    /\ KeyIn("articles", JsonDocuments[final.v])
                    /\ JsonDocuments[final.v].t = "dict"
                    /\ BatchModel(JsonDocuments[final.v].v["articles"]).ok
            THEN BatchModel(JsonDocuments[final.v].v["articles"])
            ELSE Raise("None", "No structured output found")
    IN  IF Truthy(result.structured_output)
        THEN IF result.structured_output.t = "batch" THEN Return(result.structured_output.v)
             ELSE Raise("AttributeError", "object has no attribute 'articles'")
        ELSE from_final

NewsError(msg) == [type |-> "NewsSourceError", msg |-> "Failed to fetch via DuckDuckGo: " \o msg]

\* result = await agent.run(max_steps=16)
NewsCall ==
    /\ adapter = "news"
    /\ pc = "start"
    /\ \E outcome \in NewsOutcomes :
        /\ call' = outcome
        /\ pc' = IF outcome.kind = "result" THEN "transform" ELSE "raised"
        /\ error' = IF outcome.kind = "result" THEN error ELSE NewsError(outcome.msg)
    /\ UNCHANGED <<adapter, config, raw_list, idx, parsed, seen_ids>>
    /\ UNCHANGED <<session_cache, storage_state, table>>

\* _parse_result up to its loop; an exception there leaves fetch_all_tesla_news wrapped
NewsLocate ==
    /\ adapter = "news"
    /\ pc = "transform"
    /\ LET r == news_locate(call)
       IN  /\ pc' = IF r.ok THEN (IF r.value # <<>> THEN "parsing" ELSE "done")
                    ELSE IF r.err = "None" THEN "done" ELSE "raised"
           /\ raw_list' = IF r.ok THEN r.value ELSE <<>>
           /\ error' = IF r.ok \/ r.err = "None" THEN error ELSE NewsError(r.msg)
    /\ idx' = 0
    /\ parsed' = <<>>
    /\ UNCHANGED <<adapter, config, call, seen_ids>>
    /\ UNCHANGED <<session_cache, storage_state, table>>

\* one iteration of the loop of _parse_result; the loop's end returns documents
NewsParseArticle ==
    /\ adapter = "news"
    /\ pc = "parsing"
    /\ idx < Len(raw_list)
    /\ \E today \in LocalMidnights :
           LET r == news_parse_article(raw_list[idx + 1], today)
           IN  parsed' = IF r.ok THEN Append(parsed, r.value) ELSE parsed
    /\ idx' = idx + 1
    /\ pc' = IF idx + 1 = Len(raw_list) THEN "done" ELSE "parsing"
    /\ UNCHANGED <<adapter, config, call, raw_list, seen_ids, error>>
    /\ UNCHANGED <<session_cache, storage_state, table>>

InitNews ==
    /\ adapter = "news"
    /\ config = NoConfig
    /\ pc = "start"
    /\ call = NoCall
    /\ raw_list = <<>>
    /\ idx = 0
    /\ parsed = <<>>
    /\ seen_ids = {}
    /\ error = NoError
    /\ session_cache = NoFile
    /\ storage_state = PyNone
    /\ table = NoRows

NextNews == NewsCall \/ NewsLocate \/ NewsParseArticle

SpecNews == InitNews /\ [][NextNews]_vars

(***************************************************************************)
(* BrowserClient.fetch_documents (app/adapters/browser_client.py) and      *)
(* collect_articles (app/services/collector.py)                            *)
(***************************************************************************)
\* hashlib.sha256(...).hexdigest(): equal digests for equal inputs; distinct inputs
\* are taken to give distinct digests
Sha256(text) == <<"sha256", text>>

canonical_hash(value) == Sha256(Lower(Strip(value)))

BrowserPlans == [ticker : {"TSLA"}]

BrowserOutcomes ==
    AgentFailures
    \cup {[kind |-> "result", final_result |-> PyStr("1. Tesla beats estimates ...")],
          [kind |-> "result", final_result |-> PyNone]}

parse_agent_result(result, ticker) ==
    <<[url |-> HttpUrl("https://browser-use-result.local/" \o ticker),
       title |-> ticker \o " Browser-Use Agent Result",
       text |-> PyStrOf(result.final_result),
       source |-> "browser-use-agent",
       published_at |-> ensure_timezone(NowUtc)]>>

stub_documents(ticker) ==
    <<[url |-> HttpUrl("https://example.com/" \o Lower(ticker) \o "-stub"),
       title |-> ticker \o " stub article",
       text |-> "Stub content for " \o ticker \o " - Browser-Use integration pending.",
       source |-> "stub-fallback",
       published_at |-> ensure_timezone(NowUtc)]>>

\* the list fetch_documents returns: it catches every exception of the agent run
fetch_documents(plan, outcome) ==
    IF outcome.kind = "result" THEN parse_agent_result(outcome, plan.ticker)
    ELSE stub_documents(plan.ticker)

\* raw_docs = await client.fetch_documents(plan.model_dump())
BrowserFetch ==
    /\ adapter = "browser"
    /\ pc = "start"
    /\ \E outcome \in BrowserOutcomes :
        /\ call' = outcome
        /\ raw_list' = fetch_documents(config, outcome)
    /\ pc' = "parsing"
    /\ idx' = 0
    /\ parsed' = <<>>
    /\ seen_ids' = {}
    /\ UNCHANGED <<adapter, config, error>>
    /\ UNCHANGED <<session_cache, storage_state, table>>

\* one iteration of the loop of collect_articles; the loop's end returns the CollectorResult
CollectArticle ==
    /\ adapter = "browser"
    /\ pc = "parsing"
    /\ idx < Len(raw_list)
    /\ LET doc == raw_list[idx + 1]
           hash == canonical_hash(doc.url)
       IN  /\ parsed' = IF hash \in seen_ids THEN parsed ELSE Append(parsed, doc)
           /\ seen_ids' = seen_ids \cup {hash}
    /\ idx' = idx + 1
    /\ pc' = IF idx + 1 = Len(raw_list) THEN "done" ELSE "parsing"
    /\ UNCHANGED <<adapter, config, call, raw_list, error>>
    /\ UNCHANGED <<session_cache, storage_state, table>>

InitBrowser ==
    /\ adapter = "browser"
    /\ config \in BrowserPlans
    /\ pc = "start"
    /\ call = NoCall
    /\ raw_list = <<>>
    /\ idx = 0
    /\ parsed = <<>>
    /\ seen_ids = {}
    /\ error = NoError
    /\ session_cache = NoFile
    /\ storage_state = PyNone
    /\ table = NoRows

(***************************************************************************)
(* Specifications: one collector alone, the two Twitter collectors, and    *)
(* every adapter.                                                          *)
(***************************************************************************)
InitTweets == InitN8n \/ InitTwitter

NextTweets ==
    \/ N8nCall \/ N8nExtractTweetList \/ N8nParseTweet
    \/ TwitterCall \/ TwitterLocate \/ TwitterParseTweet

SpecTweets == InitTweets /\ [][NextTweets]_vars

Init == InitN8n \/ InitTwitter \/ InitReddit \/ InitNews \/ InitBrowser

Next ==
    \/ N8nCall \/ N8nExtractTweetList \/ N8nParseTweet
    \/ TwitterCall \/ TwitterLocate \/ TwitterParseTweet
    \/ RedditCall \/ RedditLocate \/ RedditParsePost
    \/ NewsCall \/ NewsLocate \/ NewsParseArticle
    \/ BrowserFetch \/ CollectArticle

Spec == Init /\ [][Next]_vars

(***************************************************************************)
(* The timestamp normalizers on their own: TwitterCollector._parse_timestamp, *)
(* RedditCollector._parse_timestamp and DuckDuckGoNewsSource._parse_date      *)
(* applied, at the same now, to the phrases of raw_list; parsed collects      *)
(* what each call returns (not ok: None).                                     *)
(***************************************************************************)
RelativePhrases ==
    {"1 second ago", "30 seconds ago", "1 minute ago", "5 minutes ago", "1 hour ago",
     "2 hours ago", "1 day ago", "3 days ago", "1 week ago", "2 weeks ago"}

Normalizers == {"twitter", "reddit", "news"}

parse_timestamp(normalizer, text, today) ==
    CASE normalizer = "twitter" -> twitter_parse_timestamp(text)
      [] normalizer = "reddit" -> reddit_parse_timestamp(text)
      [] normalizer = "news" -> Return(news_parse_date(text, today))

NormalizeTimestamp ==
    /\ pc = "normalizing"
    /\ idx < Len(raw_list)
    /\ parsed' = Append(parsed, parse_timestamp(adapter, raw_list[idx + 1], call.today))
    /\ idx' = idx + 1
    /\ pc' = IF idx + 1 = Len(raw_list) THEN "done" ELSE "normalizing"
    /\ UNCHANGED <<adapter, config, call, raw_list, seen_ids, error>>
    /\ UNCHANGED <<session_cache, storage_state, table>>

InitNormalize ==
    /\ adapter \in Normalizers
    /\ config = NoConfig
    /\ pc = "normalizing"
    /\ call \in [kind : {"clock"}, today : LocalMidnights]
    /\ raw_list \in [1..2 -> RelativePhrases]
    /\ idx = 0
    /\ parsed = <<>>
    /\ seen_ids = {}
    /\ error = NoError
    /\ session_cache = NoFile
    /\ storage_state = PyNone
    /\ table = NoRows

NextNormalize == NormalizeTimestamp

SpecNormalize == InitNormalize /\ [][NextNormalize]_vars

(***************************************************************************)
(* The session cache of the browser collectors                             *)
(* (TwitterCollector / RedditCollector: _load_session_cache and            *)
(* _save_session_cache on cache/twitter_session.json and                   *)
(* cache/reddit_session.json).  A cache file is absent, holds text that is *)
(* not JSON, or holds a JSON value; the clock is the host's local one.     *)
(***************************************************************************)
\* datetime.now(): naive local time, the host being utc_offset seconds from UTC
LocalNow(utc_offset) == Naive(Now + utc_offset)

TwentyFourHours == 86400

\* datetime.fromisoformat on the timestamp strings a cache file holds
CacheTimestamps ==
    ("2025-10-17T06:00:00" :> Naive(1404000))
    @@ ("2025-10-17T00:00:00" :> Naive(1382400))
    @@ ("2025-10-16T19:00:00" :> Naive(1364400))
    @@ ("2025-10-16T12:00:00" :> Naive(1339200))
    @@ ("2025-10-16T00:00:00" :> Naive(1296000))
    @@ ("2025-10-15T19:00:00" :> Naive(1278000))
    @@ ("2025-10-15T12:00:00" :> Naive(1252800))
    @@ ("2025-10-16T12:00:00+00:00" :> Aware(1339200, 0))

\* what a file may hold under the 'timestamp' key (Absent: the key is missing)
Absent == [t |-> "absent"]

TimestampFields ==
    {PyStr(s) : s \in DOMAIN CacheTimestamps}
    \cup {PyStr(""), PyStr("yesterday"), PyInt(1760000000), Absent}

\* what Playwright's context.storage_state() gives: a mapping with cookies and origins
BrowserStorageState == PyDict(("cookies" :> PyList(<<>>)) @@ ("origins" :> PyList(<<>>)))

StorageStateFields ==
    {BrowserStorageState, PyDict(<<>>), PyList(<<PyStr("cookie")>>), PyStr("state"), PyNone, Absent}

CacheMapping(timestamp, state) ==
    (IF timestamp = Absent THEN <<>> ELSE "timestamp" :> timestamp)
    @@ (IF state = Absent THEN <<>> ELSE "storage_state" :> state)

JsonFile(data) == [exists |-> TRUE, json |-> TRUE, data |-> data]

\* a file whose text json.load rejects (garbage, or a dump cut short)
CorruptFile == [exists |-> TRUE, json |-> FALSE]

CacheFiles ==
    {NoFile, CorruptFile, JsonFile(PyList(<<>>))}
    \cup {JsonFile(PyDict(CacheMapping(ts, st))) : ts \in TimestampFields, st \in StorageStateFields}

\* datetime.now() - cache_time > timedelta(hours=24)
CacheExpiredAtLimit(now, cache_time) == now.wall - cache_time.wall >= TwentyFourHours

CacheExpired(now, cache_time) == now.wall - cache_time.wall > TwentyFourHours

\* self.session_cache.unlink(); return None
DeletedNone == [value |-> PyNone, file |-> NoFile]

\* _load_session_cache: the value returned and the file left behind
load_session_cache(file, now) ==
    IF ~file.exists THEN [value |-> PyNone, file |-> file]
    ELSE IF ~file.json THEN DeletedNone
    ELSE IF file.data.t # "dict" THEN DeletedNone
    ELSE LET timestamp == Get(file.data.v, "timestamp", PyStr(""))
         IN  IF timestamp.t # "str" \/ timestamp.v \notin DOMAIN CacheTimestamps
             THEN DeletedNone
             ELSE LET cache_time == CacheTimestamps[timestamp.v]
                  IN  IF cache_time.aware # now.aware THEN DeletedNone
                      ELSE IF CacheExpired(now, cache_time) THEN DeletedNone
                      ELSE LET state == Get(file.data.v, "storage_state", PyNone)
                           IN  IF ~Truthy(state) \/ state.t # "dict" THEN DeletedNone
                               ELSE [value |-> state, file |-> file]

\* storage_state = self._load_session_cache()
LoadSessionCache ==
    /\ pc \in {"idle", "loaded", "saved"}
    /\ LET r == load_session_cache(session_cache, LocalNow(config.utc_offset))
       IN  /\ storage_state' = r.value
           /\ session_cache' = r.file
    /\ call' = [kind |-> "file", read |-> session_cache]
    /\ pc' = "loaded"
    /\ UNCHANGED <<adapter, config, raw_list, idx, parsed, seen_ids, error, table>>

\* _save_session_cache: nothing is written without a browser context or when
\* obtaining the storage state raises; open(..., 'w') empties the file before
\* json.dump runs, so a dump that raises leaves a cut-short file; the
\* exception is swallowed; the timestamp written is datetime.now().isoformat()
SaveSessionCache ==
    /\ pc \in {"idle", "loaded", "saved"}
    /\ \E outcome \in {"no context", "state raised", "dumped", "dump raised"} :
          /\ session_cache' =
                CASE outcome \in {"no context", "state raised"} -> session_cache
                  [] outcome = "dump raised" -> CorruptFile
                  [] outcome = "dumped" ->
                       LET now == LocalNow(config.utc_offset)
                           isoformat == CHOOSE s \in DOMAIN CacheTimestamps : CacheTimestamps[s] = now
                       IN  JsonFile(PyDict(CacheMapping(PyStr(isoformat), BrowserStorageState)))
          /\ call' = [kind |-> "save", outcome |-> outcome, before |-> session_cache]
    /\ pc' = "saved"
    /\ UNCHANGED <<adapter, config, raw_list, idx, parsed, seen_ids, error,
                   storage_state, table>>

InitSession ==
    /\ adapter \in {"twitter", "reddit"}
    /\ config \in {[utc_offset |-> off] : off \in {0, -18000}}
    /\ pc = "idle"
    /\ call = NoCall
    /\ raw_list = <<>>
    /\ idx = 0
    /\ parsed = <<>>
    /\ seen_ids = {}
    /\ error = NoError
    /\ session_cache \in CacheFiles
    /\ storage_state = PyNone
    /\ table = NoRows

NextSession == LoadSessionCache \/ SaveSessionCache

SpecSession == InitSession /\ [][NextSession]_vars

(***************************************************************************)
(* The sink: StorageService over SupabaseAdapter.upsert.  A table is the   *)
(* sequence of its rows; a row and a payload record are mappings from      *)
(* column names to values.                                                 *)
(***************************************************************************)
MaxPayload == 2

SinkTables == {"sentiment_analysis", "twitter_sentiment", "reddit_sentiment", "news_archive"}

\* the field of the record model that names the row: SentimentAnalysisRecord.url,
\* TwitterSentimentRecord.tweet_id, RedditSentimentRecord.post_url
RecordKeyField(tbl) ==
    CASE tbl = "twitter_sentiment" -> "tweet_id"
      [] tbl = "reddit_sentiment" -> "post_url"
      [] OTHER -> "url"

RecordKeyValues(tbl) ==
    IF tbl = "twitter_sentiment" THEN {"1001", "1002"}
    ELSE {"https://news.example/a", "https://news.example/b"}

\* the record models handed to the sink: the key field, a required field and an
\* optional one (None until a later stage fills it)
SinkRecords(tbl) ==
    {(RecordKeyField(tbl) :> PyStr(k)) @@ ("title" :> PyStr(title)) @@ ("summary" :> summary) :
        k \in RecordKeyValues(tbl), title \in {"Tesla Q3"},
        summary \in {PyNone, PyStr("deliveries up")}}

RecordLists(tbl) == UNION {[1..n -> SinkRecords(tbl)] : n \in 0..MaxPayload}

\* record.model_dump(mode="json", exclude_none=True)
model_dump(record) ==
    [column \in {c \in DOMAIN record : record[c] # PyNone} |-> record[column]]

conflict_column_url(tbl) == "url"

\* SupabaseAdapter.upsert: the on_conflict column chosen for a table
conflict_column(tbl) ==
    CASE tbl = "sentiment_analysis" -> "url"
      [] tbl = "twitter_sentiment" -> "tweet_id"
      [] tbl = "reddit_sentiment" -> "post_url"
      [] OTHER -> "url"

\* INSERT ... ON CONFLICT (column) DO UPDATE over the payload, record by record:
\* a record whose column value is that of a row overwrites the columns it
\* carries in that row, any other record becomes a new row
RECURSIVE MergeRows(_, _, _)
MergeRows(rows, column, payload) ==
    IF payload = <<>> THEN rows
    ELSE LET record == Head(payload)
             hit == {i \in 1..Len(rows) : rows[i][column] = record[column]}
             merged == IF hit = {} THEN Append(rows, record)
                       ELSE [i \in 1..Len(rows) |->
                                IF i \in hit THEN record @@ rows[i] ELSE rows[i]]
         IN  MergeRows(merged, column, Tail(payload))

\* SupabaseAdapter.upsert(table, records): the rows afterwards, or the error of
\* the request (a payload without the conflict column, or one naming a row twice)
adapter_upsert(rows, tbl, payload) ==
    IF payload = <<>> THEN Return(rows)
    ELSE LET column == conflict_column(tbl)
         IN  IF \E i \in 1..Len(payload) : column \notin DOMAIN payload[i]
             THEN Raise("APIError", "column missing")
             ELSE IF \E i, j \in 1..Len(payload) :
                        i < j /\ payload[i][column] = payload[j][column]
             THEN Raise("APIError", "ON CONFLICT DO UPDATE command cannot affect row a second time")
             ELSE Return(MergeRows(rows, column, payload))

\* StorageService.upsert_records / upsert_tweets / upsert_reddit_posts
UpsertRecords ==
    /\ pc \in {"idle", "upserted", "failed"}
    /\ \E records \in RecordLists(config.table) :
          LET payload == [i \in 1..Len(records) |-> model_dump(records[i])]
              r == adapter_upsert(table, config.table, payload)
          IN  /\ call' = [kind |-> "upsert", payload |-> payload, before |-> table]
              /\ table' = IF r.ok THEN r.value ELSE table
              /\ pc' = IF r.ok THEN "upserted" ELSE "failed"
              /\ error' = IF r.ok THEN NoError ELSE [type |-> r.err, msg |-> r.msg]
    /\ UNCHANGED <<adapter, config, raw_list, idx, parsed, seen_ids>>
    /\ UNCHANGED <<session_cache, storage_state>>

InitUpsert ==
    /\ adapter = "supabase"
    /\ config \in {[table |-> tbl] : tbl \in SinkTables}
    /\ pc = "idle"
    /\ call = NoCall
    /\ raw_list = <<>>
    /\ idx = 0
    /\ parsed = <<>>
    /\ seen_ids = {}
    /\ error = NoError
    /\ session_cache = NoFile
    /\ storage_state = PyNone
    /\ table = NoRows

NextUpsert == UpsertRecords

SpecUpsert == InitUpsert /\ [][NextUpsert]_vars

(***************************************************************************)
(* The fetch command (app.cli.fetch_news.fetch): collect, classify each    *)
(* document into a SentimentAnalysisRecord, score each record unless       *)
(* skip_sentiment, store.  Scores are kept in tenths (sentiment 0.5 is 5). *)
(***************************************************************************)
MaxDocs == 2

MaxAttempts == 3

FetchedDocuments ==
    {[url |-> "https://news.example/a", title |-> "Tesla Q3"],
     [url |-> "https://news.example/b", title |-> "Tesla recall"]}

\* what fetch_tesla_news returns (cut to limit): any list of documents
DocumentLists == UNION {[1..n -> FetchedDocuments] : n \in 0..MaxDocs}

\* SentimentAnalysisRecord(...) of a document, with or without classification
NewRecord(doc, category) ==
    [url |-> PyStr(doc.url), title |-> PyStr(doc.title), category |-> category,
     sentiment_score |-> PyNone, impact_score |-> PyNone,
     sentiment_confidence |-> PyNone, stance |-> PyNone]

\* what the LLM's structured output may hold, or the failure of the request
LlmReplies ==
    {[kind |-> "reply", sentiment |-> 5, impact |-> 3, confidence |-> 8, stance |-> "bullish"],
     [kind |-> "reply", sentiment |-> -10, impact |-> 1, confidence |-> 0, stance |-> "bearish"],
     [kind |-> "reply", sentiment |-> 10, impact |-> 5, confidence |-> 10, stance |-> "positive"],
     [kind |-> "reply", sentiment |-> 15, impact |-> 3, confidence |-> 8, stance |-> "bullish"],
     [kind |-> "reply", sentiment |-> 5, impact |-> 6, confidence |-> 8, stance |-> "neutral"],
     [kind |-> "reply", sentiment |-> 5, impact |-> 3, confidence |-> 12, stance |-> "neutral"],
     [kind |-> "error"]}

\* SentimentResult: the Field(ge=..., le=...) constraints; stance is a plain str
SentimentResultValid(reply) ==
    /\ reply.sentiment >= -10 /\ reply.sentiment <= 10
    /\ reply.impact >= 1 /\ reply.impact <= 5
    /\ reply.confidence >= 0 /\ reply.confidence <= 10

\* max(lo, min(hi, value))
Clamp(lo, hi, value) == IF value > hi THEN hi ELSE IF value < lo THEN lo ELSE value

\* SentimentAnalyzer.analyze_article on one reply of the LLM
analyze_article(reply) ==
    IF reply.kind = "error" THEN Raise("ScoringError", "Sentiment analysis failed")
    ELSE IF ~SentimentResultValid(reply) THEN Raise("ScoringError", "Sentiment analysis failed")
    ELSE Return([sentiment |-> Clamp(-10, 10, reply.sentiment),
                 impact |-> Clamp(1, 5, reply.impact),
                 confidence |-> Clamp(0, 10, reply.confidence),
                 stance |-> reply.stance])

\* analyze_sentiment: the dummy result without an API key, else up to
\* MaxAttempts attempts, the last error re-raised
RECURSIVE Attempt(_, _)
Attempt(replies, n) ==
    LET r == analyze_article(replies[n])
    IN  IF r.ok \/ n = MaxAttempts THEN r ELSE Attempt(replies, n + 1)

analyze_sentiment(openai_api_key, replies) ==
    IF ~openai_api_key
    THEN Return([sentiment |-> 0, impact |-> 2, confidence |-> 3, stance |-> "neutral"])
    ELSE Attempt(replies, 1)

\* record.sentiment_score = sentiment_result.sentiment ... record.stance = sentiment_result.stance
Scored(record, result) ==
    [record EXCEPT !.sentiment_score = PyInt(result.sentiment),
                   !.impact_score = PyInt(result.impact),
                   !.sentiment_confidence = PyInt(result.confidence),
                   !.stance = PyStr(result.stance)]

\* documents = await fetch_tesla_news(days); the command returns on an
\* exception and on an empty list
FetchDocuments ==
    /\ pc = "start"
    /\ \E outcome \in {[kind |-> "raised"]} \cup {[kind |-> "documents", list |-> l] : l \in DocumentLists} :
          /\ call' = outcome
          /\ raw_list' = IF outcome.kind = "documents" THEN outcome.list ELSE <<>>
          /\ pc' = IF outcome.kind = "documents" /\ outcome.list # <<>> THEN "classifying" ELSE "done"
    /\ UNCHANGED <<adapter, config, idx, parsed, seen_ids, error>>
    /\ UNCHANGED <<session_cache, storage_state, table>>

\* one pass of `for doc in documents`; after the last document skip_sentiment
\* makes records = classified_records and the command ends
ClassifyDocument ==
    /\ pc = "classifying"
    /\ \E category \in {PyStr("earnings"), PyNone} :
          parsed' = Append(parsed, NewRecord(raw_list[idx + 1], category))
    /\ idx' = IF idx + 1 = Len(raw_list) THEN 0 ELSE idx + 1
    /\ pc' = IF idx + 1 < Len(raw_list) THEN "classifying"
             ELSE IF config.skip_sentiment THEN "done" ELSE "scoring"
    /\ UNCHANGED <<adapter, config, call, raw_list, seen_ids, error>>
    /\ UNCHANGED <<session_cache, storage_state, table>>

\* one pass of `for record in classified_records`
ScoreRecord ==
    /\ pc = "scoring"
    /\ \E replies \in [1..MaxAttempts -> LlmReplies] :
          LET r == analyze_sentiment(config.openai_api_key, replies)
          IN  /\ parsed' = IF r.ok THEN [parsed EXCEPT ![idx + 1] = Scored(@, r.value)] ELSE parsed
              /\ call' = [kind |-> "scoring", index |-> idx + 1, ok |-> r.ok]
    /\ idx' = idx + 1
    /\ pc' = IF idx + 1 < Len(parsed) THEN "scoring" ELSE "storing"
    /\ UNCHANGED <<adapter, config, raw_list, seen_ids, error>>
    /\ UNCHANGED <<session_cache, storage_state, table>>

\* if settings.supabase_credentials: StorageService().upsert_records(records),
\* a failure being logged only
StoreRecords ==
    /\ pc = "storing"
    /\ LET payload == [i \in 1..Len(parsed) |-> model_dump(parsed[i])]
           r == adapter_upsert(table, "sentiment_analysis", payload)
       IN  table' = IF config.supabase_credentials /\ r.ok THEN r.value ELSE table
    /\ pc' = "done"
    /\ UNCHANGED <<adapter, config, call, raw_list, idx, parsed, seen_ids, error>>
    /\ UNCHANGED <<session_cache, storage_state>>

InitFetch ==
    /\ adapter = "fetch"
    /\ config \in [skip_sentiment : BOOLEAN, supabase_credentials : BOOLEAN,
                   openai_api_key : BOOLEAN]
    /\ pc = "start"
    /\ call = NoCall
    /\ raw_list = <<>>
    /\ idx = 0
    /\ parsed = <<>>
    /\ seen_ids = {}
    /\ error = NoError
    /\ session_cache = NoFile
    /\ storage_state = PyNone
    /\ table = NoRows

NextFetch == FetchDocuments \/ ClassifyDocument \/ ScoreRecord \/ StoreRecords

SpecFetch == InitFetch /\ [][NextFetch]_vars

(***************************************************************************)
(* app.domain.schemas: canonical_hash and Article.from_raw, applied to a   *)
(* URL string and to a variant of it in letter case and outer whitespace.  *)
(***************************************************************************)
\* str.upper() of one character: ASCII letters, and the sharp s, whose upper case is "SS"
UpperChar(c) ==
    CASE c = "a" -> "A" [] c = "b" -> "B" [] c = "c" -> "C" [] c = "d" -> "D"
      [] c = "e" -> "E" [] c = "f" -> "F" [] c = "g" -> "G" [] c = "h" -> "H"
      [] c = "i" -> "I" [] c = "j" -> "J" [] c = "k" -> "K" [] c = "l" -> "L"
      [] c = "m" -> "M" [] c = "n" -> "N" [] c = "o" -> "O" [] c = "p" -> "P"
      [] c = "q" -> "Q" [] c = "r" -> "R" [] c = "s" -> "S" [] c = "t" -> "T"
      [] c = "u" -> "U" [] c = "v" -> "V" [] c = "w" -> "W" [] c = "x" -> "X"
      [] c = "y" -> "Y" [] c = "z" -> "Z" [] c = "ß" -> "SS" [] OTHER -> c

RECURSIVE UpperFrom(_, _)
UpperFrom(s, i) ==
    IF i > Len(s) THEN "" ELSE UpperChar(CharAt(s, i)) \o UpperFrom(s, i + 1)

Upper(s) == UpperFrom(s, 1)

HashedUrls ==
    {"https://example.com/article", "https://Example.com/Article",
     "https://news.example/a", "https://news.example/b", "https://x.com/u/status/1",
     "https://reddit.com/r/wallstreetbets/comments/abc456", "https://tesla.com",
     "HTTPS://TESLA.COM/IR", "https://example.de/straße", "https://example.de/Strasse"}

\* the same string in another letter case or with whitespace around it
CaseAndSpaceVariants(u) ==
    {u, Upper(u), Lower(u), " " \o u, u \o " ", "  " \o Upper(u) \o " "}

\* Article.from_raw(url=url, ...): str(url) of a str is the string itself
from_raw(url) == [url |-> url, canonical_hash |-> canonical_hash(url)]

\* Article.from_raw on the two strings of the pair
FromRawPair ==
    /\ pc = "hashing"
    /\ parsed' = [i \in 1..Len(raw_list) |-> from_raw(raw_list[i])]
    /\ pc' = "hashed"
    /\ UNCHANGED <<adapter, config, call, raw_list, idx, seen_ids, error>>
    /\ UNCHANGED <<session_cache, storage_state, table>>

InitHash ==
    /\ adapter = "schemas"
    /\ config = NoConfig
    /\ pc = "hashing"
    /\ call = NoCall
    /\ raw_list \in {<<u, v>> : u \in HashedUrls, v \in UNION {CaseAndSpaceVariants(w) : w \in HashedUrls}}
    /\ idx = 0
    /\ parsed = <<>>
    /\ seen_ids = {}
    /\ error = NoError
    /\ session_cache = NoFile
    /\ storage_state = PyNone
    /\ table = NoRows

NextHash == FromRawPair

SpecHash == InitHash /\ [][NextHash]_vars

(***************************************************************************)
(* N8nTwitterCollector._extract_field applied to a mapping, a list of      *)
(* candidate keys and the required flag.                                   *)
(***************************************************************************)
\* what a raw record may hold under a candidate key (Absent: no such key)
FieldValues == {Absent, PyStr(""), PyStr("123"), PyInt(0), PyInt(7), PyNone}

FieldMappings ==
    {(IF a = Absent THEN <<>> ELSE "id" :> a)
       @@ (IF b = Absent THEN <<>> ELSE "tweetId" :> b)
       @@ (IF c = Absent THEN <<>> ELSE "tweet_id" :> c) :
        a \in FieldValues, b \in FieldValues, c \in FieldValues}

CandidateKeys == {<<"id", "tweetId", "tweet_id">>, <<"tweet_id", "id">>, <<"text", "full_text">>}

\* self._extract_field(data, keys, required)
ExtractField ==
    /\ pc = "extracting"
    /\ parsed' = <<extract_field(call.data, call.keys, call.required)>>
    /\ pc' = "extracted"
    /\ UNCHANGED <<adapter, config, call, raw_list, idx, seen_ids, error>>
    /\ UNCHANGED <<session_cache, storage_state, table>>

InitExtract ==
    /\ adapter = "n8n"
    /\ config = NoConfig
    /\ pc = "extracting"
    /\ call \in [kind : {"extract_field"}, data : FieldMappings, keys : CandidateKeys,
                 required : BOOLEAN]
    /\ raw_list = <<>>
    /\ idx = 0
    /\ parsed = <<>>
    /\ seen_ids = {}
    /\ error = NoError
    /\ session_cache = NoFile
    /\ storage_state = PyNone
    /\ table = NoRows

NextExtract == ExtractField

SpecExtract == InitExtract /\ [][NextExtract]_vars

(***************************************************************************)
(* collect() of the browser collectors: the three reads of the session     *)
(* cache, with the cache file shared with other processes                  *)
(***************************************************************************)
\* max_steps = 15 if has_cache else 20 (Twitter); 12 if has_cache else 15 (Reddit)
max_steps(platform, has_cache) ==
    IF platform = "twitter" THEN (IF has_cache THEN 15 ELSE 20)
    ELSE (IF has_cache THEN 12 ELSE 15)

\* task = self._build_task_prompt(): has_cache = self._load_session_cache() is not None
BuildTaskPrompt ==
    /\ adapter \in {"twitter", "reddit"}
    /\ pc = "collect"
    /\ LET r == load_session_cache(session_cache, LocalNow(config.utc_offset))
       IN  /\ call' = [kind |-> "prompt", has_cache |-> r.value # PyNone]
           /\ session_cache' = r.file
    /\ pc' = "prompted"
    /\ UNCHANGED <<adapter, config, raw_list, idx, parsed, seen_ids, error,
                   storage_state, table>>

\* storage_state = self._load_session_cache(), handed to BrowserProfile
LoadProfileState ==
    /\ adapter \in {"twitter", "reddit"}
    /\ pc = "prompted"
    /\ LET r == load_session_cache(session_cache, LocalNow(config.utc_offset))
       IN  /\ storage_state' = r.value
           /\ session_cache' = r.file
    /\ pc' = "profiled"
    /\ UNCHANGED <<adapter, config, call, raw_list, idx, parsed, seen_ids, error, table>>

\* has_cache = self._load_session_cache() is not None; max_steps = ... if has_cache else ...
SelectStepBudget ==
    /\ adapter \in {"twitter", "reddit"}
    /\ pc = "profiled"
    /\ LET r == load_session_cache(session_cache, LocalNow(config.utc_offset))
       IN  /\ call' = [kind |-> "agent", prompt_has_cache |-> call.has_cache,
                       max_steps |-> max_steps(adapter, r.value # PyNone)]
           /\ session_cache' = r.file
    /\ pc' = "budgeted"
    /\ UNCHANGED <<adapter, config, raw_list, idx, parsed, seen_ids, error,
                   storage_state, table>>

\* cache/<platform>_session.json is a file on disk: between two reads another
\* process may delete it or write a fresh session into it
CacheFileChanged ==
    /\ adapter \in {"twitter", "reddit"}
    /\ pc \in {"prompted", "profiled"}
    /\ \E written \in {NoFile,
                        JsonFile(PyDict(CacheMapping(PyStr("2025-10-16T12:00:00"),
                                                      BrowserStorageState)))} :
          /\ written # session_cache
          /\ session_cache' = written
    /\ UNCHANGED <<adapter, config, pc, call, raw_list, idx, parsed, seen_ids, error,
                   storage_state, table>>

InitReads ==
    /\ adapter \in {"twitter", "reddit"}
    /\ config \in {[utc_offset |-> off] : off \in {0, -18000}}
    /\ pc = "collect"
    /\ call = NoCall
    /\ raw_list = <<>>
    /\ idx = 0
    /\ parsed = <<>>
    /\ seen_ids = {}
    /\ error = NoError
    /\ session_cache \in CacheFiles
    /\ storage_state = PyNone
    /\ table = NoRows

NextReads == BuildTaskPrompt \/ LoadProfileState \/ SelectStepBudget \/ CacheFileChanged

SpecReads == InitReads /\ [][NextReads]_vars

(***************************************************************************)
(* Properties                                                              *)
(***************************************************************************)
TweetAdapters == {"n8n", "twitter"}

\* the identity key the Twitter loops read off a raw record ("" when it has none)
RawTweetId(raw) ==
    IF adapter = "twitter" THEN raw.tweet_id
    ELSE IF raw.t = "dict" /\ extract_field(raw.v, <<"id", "tweetId", "tweet_id">>, FALSE).value.t = "str"
    THEN extract_field(raw.v, <<"id", "tweetId", "tweet_id">>, FALSE).value.v
    ELSE ""

\* the raw record parses and validates when it is looked at on its own
RawTweetAcceptable(raw) ==
    IF adapter = "twitter" THEN twitter_parse_tweet(raw, {}).ok ELSE parse_single_tweet(raw).ok

\* the output tweet was built from this raw record
BuiltFrom(tweet, raw) ==
    IF adapter = "twitter" THEN tweet.tweet_id = raw.tweet_id /\ tweet.text = raw.text
    ELSE tweet.raw_payload = raw

\* the batch as it arrived: the webhook's tweet array, or the agent's TweetBatch
ArrivedTweets ==
    IF adapter = "n8n" THEN LocateTweetList(call.body.v).v ELSE raw_list

OutputsWithId(K) == {j \in DOMAIN parsed : parsed[j].tweet_id = K}

\* C1 as stated: when a Twitter adapter has finished a batch in which tweet ID K occurs
\* more than once, exactly one output tweet has ID K and it is the first occurrence of
\* K in arrival order.
C1_FirstOccurrenceSurvives ==
    (adapter \in TweetAdapters /\ pc = "done" /\ call.kind \in {"response", "result"}) =>
        \A i \in DOMAIN ArrivedTweets :
            LET K == RawTweetId(ArrivedTweets[i])
                occurrences == {k \in DOMAIN ArrivedTweets : RawTweetId(ArrivedTweets[k]) = K}
            IN  (K # "" /\ Cardinality(occurrences) > 1 /\ \A k \in occurrences : i <= k) =>
                    /\ Cardinality(OutputsWithId(K)) = 1
                    /\ \A j \in OutputsWithId(K) : BuiltFrom(parsed[j], ArrivedTweets[i])

\* C1 amended: the output of a Twitter adapter never holds two tweets with the same
\* tweet_id; once the loop has passed an occurrence of ID K that parses and validates,
\* exactly one output tweet has ID K and it was built from the first such occurrence
\* of the list the loop iterates; an ID with no such occurrence is not in the output.
C1_AtMostOneFirstValid ==
    adapter \in TweetAdapters =>
        /\ \A i, j \in DOMAIN parsed : i # j => parsed[i].tweet_id # parsed[j].tweet_id
        /\ \A j \in DOMAIN parsed :
               \E i \in 1..idx :
                   /\ RawTweetAcceptable(raw_list[i])
                   /\ BuiltFrom(parsed[j], raw_list[i])
                   /\ \A k \in 1..(i - 1) :
                          RawTweetAcceptable(raw_list[k]) =>
                              RawTweetId(raw_list[k]) # parsed[j].tweet_id
        /\ \A i \in 1..idx :
               RawTweetAcceptable(raw_list[i]) =>
                   Cardinality(OutputsWithId(RawTweetId(raw_list[i]))) = 1

\* C1 witness: a finished n8n batch whose first record with ID "1" was dropped as malformed
\* and whose two later valid records with ID "1" differ in payload; one tweet came out.
C1_Witness ==
    /\ adapter = "n8n"
    /\ pc = "done"
    /\ Len(raw_list) = 3
    /\ ~RawTweetAcceptable(raw_list[1])
    /\ RawTweetAcceptable(raw_list[2])
    /\ RawTweetAcceptable(raw_list[3])
    /\ RawTweetId(raw_list[1]) = "1"
    /\ RawTweetId(raw_list[2]) = "1"
    /\ RawTweetId(raw_list[3]) = "1"
    /\ raw_list[2] # raw_list[3]
    /\ Len(parsed) = 1
    /\ parsed[1].raw_payload = raw_list[2]

\* C2 as stated: the Reddit adapter's output holds at most one post per post_id, the
\* first occurrence of the batch wins, and survivors keep the order received.
C2_RedditDedup ==
    adapter = "reddit" =>
        /\ \A i, j \in DOMAIN parsed : i # j => parsed[i].post_id # parsed[j].post_id
        /\ \A j \in DOMAIN parsed :
               \E i \in 1..idx :
                   /\ raw_list[i].post_id = parsed[j].post_id
                   /\ raw_list[i].title = parsed[j].title
                   /\ \A k \in 1..(i - 1) :
                          reddit_parse_post(raw_list[k], config).ok =>
                              raw_list[k].post_id # parsed[j].post_id

\* C3 as stated: no two documents returned by one collection run of the DuckDuckGo
\* source or of collect_articles have the same URL.
C3_UniqueUrls ==
    adapter \in {"news", "browser"} =>
        \A i, j \in DOMAIN parsed : i # j => parsed[i].url # parsed[j].url

\* the j-th smallest element of a set of indices
NthOf(S, j) == CHOOSE i \in S : Cardinality({k \in S : k <= i}) = j

\* a raw tweet's engagement counter, a missing one counting as 0
CounterOrZero(tweet, key) == IF key \in DOMAIN tweet.v THEN tweet.v[key].v ELSE 0

PassesThresholds(tweet) ==
    /\ CounterOrZero(tweet, "replyCount") >= config.min_replies.v
    /\ CounterOrZero(tweet, "likeCount") >= config.min_faves.v
    /\ CounterOrZero(tweet, "retweetCount") >= config.min_retweets.v

PassingIndices == {i \in DOMAIN ArrivedTweets : PassesThresholds(ArrivedTweets[i])}

WellFormedPayload ==
    /\ call.kind = "response"
    /\ call.status = 200
    /\ call.body.t = "json"
    /\ LocateTweetList(call.body.v).t = "list"

\* C5 as stated: after a successful webhook call with a well-formed top-level payload,
\* collect() does not raise whatever single records look like, and every record of the
\* iterated list that parses and validates has its tweet in the output.
C5_BadRecordNeverRaises ==
    (adapter = "n8n" /\ WellFormedPayload) =>
        /\ pc # "raised"
        /\ pc = "done" =>
               \A i \in DOMAIN raw_list :
                   parse_single_tweet(raw_list[i]).ok =>
                       OutputsWithId(parse_single_tweet(raw_list[i]).value.tweet_id) # {}

\* the external call itself failed: it raised, timed out, answered a non-2xx status or
\* a body that is no JSON document
CallFailed ==
    \/ call.kind \in {"exception", "timeout", "network"}
    \/ call.kind = "response" /\ (call.status \notin 200..299 \/ call.body.t = "text")

TypedError ==
    CASE adapter = "n8n" -> "N8nCollectionError"
      [] adapter = "twitter" -> "TwitterCollectionError"
      [] adapter = "reddit" -> "RedditCollectionError"
      [] adapter = "news" -> "NewsSourceError"
      [] adapter = "browser" -> "BrowserClientError"

\* C6 as stated: in every adapter a failed external call ends the run in the adapter's
\* typed collection error, and no list of records goes back to the caller.
C6_FailedCallRaises ==
    CallFailed => (pc = "raised" /\ error.type = TypedError /\ parsed = <<>>)

\* C7: a webhook call that times out, fails at network level, answers a non-2xx status,
\* an empty body or a body that is not JSON makes the n8n run end in N8nCollectionError
\* with no tweets; for a 404 the error message holds the requested webhook URL.
C7_WebhookFailureRaises ==
    (adapter = "n8n" /\ CallFailed) =>
        /\ pc = "raised"
        /\ error.type = "N8nCollectionError"
        /\ parsed = <<>>
        /\ (call.kind = "response" /\ call.status = 404) =>
               Contains(error.msg, "https://n8n.example.com/webhook/twitter-scraper")

\* C7 witness: the webhook answered 404 and the error that left collect() names the URL.
C7_Witness ==
    /\ adapter = "n8n"
    /\ pc = "raised"
    /\ call.kind = "response"
    /\ call.status = 404
    /\ error.type = "N8nCollectionError"
    /\ Contains(error.msg, "Check webhook URL: https://n8n.example.com/webhook/twitter-scraper")

\* the community segment of a post URL: the path element after /r/
UrlSegment(url) == LET parts == Split(url, "/") IN IF Len(parts) >= 5 THEN parts[5] ELSE ""

\* every check of the Reddit loop other than the subreddit comparison lets the post through
ValidBesidesSubreddit(post) ==
    /\ post.post_id # "" /\ post.post_url # "" /\ post.title # ""
    /\ ~(reddit_parse_timestamp(post.timestamp).ok
         /\ Before(reddit_parse_timestamp(post.timestamp).value, MinusSeconds(NowUtc, OneWeek)))
    /\ StartsWith(post.post_url, "https://old.reddit.com/r/")
    /\ ~Contains(post.post_url, "xyz")
    /\ ~Contains(post.post_url, "abc456")

SameCommunity(post) == Lower(UrlSegment(post.post_url)) = Lower(config.subreddit)

\* C8: the Reddit adapter drops every post whose URL community segment differs from the
\* target subreddit compared case-insensitively, whatever its other fields, and never
\* drops a post for its segment when the segment equals the target up to letter case:
\* the output is, in order, the looked-at posts that are valid otherwise and of the
\* target community.
C8_SubredditScope ==
    adapter = "reddit" =>
        LET kept == {i \in 1..idx : ValidBesidesSubreddit(raw_list[i]) /\ SameCommunity(raw_list[i])}
        IN  /\ Len(parsed) = Cardinality(kept)
            /\ \A j \in DOMAIN parsed :
                   /\ parsed[j].post_id = raw_list[NthOf(kept, j)].post_id
                   /\ parsed[j].title = raw_list[NthOf(kept, j)].title
                   /\ SameCommunity(parsed[j])

\* C8 witness: target 'wallstreetbets'; a valid r/technology post was dropped and a post
\* of r/WallStreetBets was accepted.
C8_Witness ==
    /\ adapter = "reddit"
    /\ pc = "done"
    /\ config.subreddit = "wallstreetbets"
    /\ Len(raw_list) = 2
    /\ UrlSegment(raw_list[1].post_url) = "technology"
    /\ ValidBesidesSubreddit(raw_list[1])
    /\ UrlSegment(raw_list[2].post_url) = "WallStreetBets"
    /\ Len(parsed) = 1
    /\ parsed[1].title = raw_list[2].title

\* a placeholder identifier: a deny-listed substring or a numeric string of one or two digits
IsPlaceholderId(id) ==
    Contains(id, "xyz") \/ Contains(id, "abc456") \/ (IsDigits(id) /\ Len(id) <= 2)

\* the post ID inside a post URL: the path element after /comments/
UrlPostId(url) == LET parts == Split(url, "/") IN IF Len(parts) >= 7 THEN parts[7] ELSE ""

\* C9 as stated: no post in the Reddit adapter's output has a placeholder identifier,
\* neither as post_id nor in its URL.
C9_NoPlaceholderIds ==
    adapter = "reddit" =>
        \A j \in DOMAIN parsed :
            /\ ~IsPlaceholderId(parsed[j].post_id)
            /\ ~IsPlaceholderId(UrlPostId(parsed[j].post_url))

\* a twitter.com or x.com status URL
IsStatusUrl(url) ==
    LET parts == Split(url, "/")
    IN  /\ Len(parts) >= 6
        /\ parts[1] \in {"http:", "https:"}
        /\ parts[2] = ""
        /\ parts[3] \in {"twitter.com", "x.com", "www.twitter.com", "www.x.com", "mobile.twitter.com"}
        /\ parts[5] = "status"

\* C10 as stated: every accepted Reddit post has a URL beginning with
\* https://old.reddit.com/r/<subreddit>/ and every accepted tweet, in both Twitter
\* adapters, has a twitter.com or x.com status URL.
C10_PlatformUrl ==
    /\ adapter = "reddit" =>
           \A j \in DOMAIN parsed :
               StartsWith(Lower(parsed[j].post_url),
                          "https://old.reddit.com/r/" \o Lower(config.subreddit) \o "/")
    /\ adapter \in TweetAdapters =>
           \A j \in DOMAIN parsed : IsStatusUrl(parsed[j].tweet_url)

\* timestamp strings no parser of the adapters accepts
UnparseableStamps == {"not-a-date"}

\* the timestamp string a raw tweet carries
RawStamp(raw) ==
    IF adapter = "twitter" THEN raw.timestamp
    ELSE IF raw.t = "dict" /\ "createdAt" \in DOMAIN raw.v /\ raw.v["createdAt"].t = "str"
    THEN raw.v["createdAt"].v
    ELSE ""

\* C11 as stated: in both Twitter adapters no output tweet is built from a raw record
\* whose posting timestamp cannot be parsed; such a record is dropped, never emitted
\* with a substituted time.
C11_UnparseableStampDropped ==
    adapter \in TweetAdapters =>
        \A j \in DOMAIN parsed : \A i \in 1..idx :
            BuiltFrom(parsed[j], raw_list[i]) => RawStamp(raw_list[i]) \notin UnparseableStamps

\* timestamp strings of Reddit posts that are empty or no ISO-8601 text
RedditUnreadableStamps == {"", "2 hours ago", "not-a-date"}

\* C12: a Reddit post whose timestamp is empty or unparseable and which passes the URL
\* and subreddit validations (and has its required fields) is in the output, with
\* posted_at equal to the batch's normalization time.
C12_UnreadableStampAcceptedWithNow ==
    adapter = "reddit" =>
        \A i \in 1..idx :
            (/\ raw_list[i].timestamp \in RedditUnreadableStamps
             /\ ValidBesidesSubreddit(raw_list[i])
             /\ SameCommunity(raw_list[i])) =>
                \E j \in DOMAIN parsed :
                    /\ parsed[j].post_id = raw_list[i].post_id
                    /\ parsed[j].title = raw_list[i].title
                    /\ parsed[j].posted_at = NowUtc

\* C12 witness: a batch of a post with an empty timestamp and a post stamped
\* '2 hours ago' ended with both in the output, dated now.
C12_Witness ==
    /\ adapter = "reddit"
    /\ pc = "done"
    /\ Len(raw_list) = 2
    /\ raw_list[1].timestamp = ""
    /\ raw_list[2].timestamp = "2 hours ago"
    /\ Len(parsed) = 2
    /\ parsed[1].posted_at = NowUtc
    /\ parsed[2].posted_at = NowUtc

\* the datetime is timezone-aware with a zero UTC offset
IsUtc(dt) == dt.aware /\ dt.off = 0

\* C13: every record an adapter emits carries timezone-aware timestamps of UTC offset
\* zero: posted_at and collected_at of tweets and posts, published_at of documents.
C13_TimestampsAreUtc ==
    \A j \in DOMAIN parsed :
        IF adapter \in {"n8n", "twitter", "reddit"}
        THEN IsUtc(parsed[j].posted_at) /\ IsUtc(parsed[j].collected_at)
        ELSE IsUtc(parsed[j].published_at)

\* C13 witness: the n8n adapter emitted a tweet whose createdAt carried no zone, and
\* its posted_at is aware and in UTC.
C13_Witness ==
    /\ adapter = "n8n"
    /\ \E j \in DOMAIN parsed :
           /\ RawStamp(parsed[j].raw_payload) = "2025-10-16T12:00:00"
           /\ IsUtc(parsed[j].posted_at)

\* the instant an absolute timestamp string denotes, a string without zone read as UTC
AbsoluteInstants ==
    ("2025-10-16T12:00:00.000Z" :> 1339200) @@ ("2025-10-16T14:00:00+02:00" :> 1339200)
    @@ ("2025-10-16T12:00:00" :> 1339200) @@ ("Thu Oct 16 12:00:00 +0000 2025" :> 1339200)
    @@ ("Oct 16, 2025" :> 1296000)

\* C14 as stated: a record the n8n Twitter adapter or the DuckDuckGo adapter built from
\* an absolute timestamp string carries the instant that string denotes, in UTC: 'Z'
\* gives the instant itself, an explicit offset is converted, no zone means UTC.
C14_AbsoluteInstantPreserved ==
    /\ adapter = "n8n" =>
           \A j \in DOMAIN parsed :
               RawStamp(parsed[j].raw_payload) \in DOMAIN AbsoluteInstants =>
                   parsed[j].posted_at = Aware(AbsoluteInstants[RawStamp(parsed[j].raw_payload)], 0)
    /\ adapter = "news" =>
           \A j \in DOMAIN parsed : \A i \in 1..idx :
               (parsed[j].title = raw_list[i].title
                /\ raw_list[i].date_text \in DOMAIN AbsoluteInstants) =>
                   parsed[j].published_at = Aware(AbsoluteInstants[raw_list[i].date_text], 0)

\* the time a relative phrase says has elapsed, in seconds
ElapsedSeconds ==
    ("1 second ago" :> 1) @@ ("30 seconds ago" :> 30) @@ ("1 minute ago" :> 60)
    @@ ("5 minutes ago" :> 300) @@ ("1 hour ago" :> 3600) @@ ("2 hours ago" :> 7200)
    @@ ("1 day ago" :> 86400) @@ ("3 days ago" :> 259200) @@ ("1 week ago" :> 604800)
    @@ ("2 weeks ago" :> 1209600)

\* C15 as stated: the normalizers of the browser Twitter, Reddit and DuckDuckGo adapters
\* turn '<N> <unit>(s) ago' into now minus N units, so of two phrases normalized at the
\* same now the one denoting the longer elapsed time gives the strictly earlier instant.
C15_RelativePhraseOrder ==
    (adapter \in Normalizers /\ pc \in {"normalizing", "done"} /\ call.kind = "clock") =>
        /\ \A i \in 1..idx :
               /\ parsed[i].ok
               /\ parsed[i].value = Aware(Now - ElapsedSeconds[raw_list[i]], 0)
        /\ \A i, k \in 1..idx :
               ElapsedSeconds[raw_list[i]] > ElapsedSeconds[raw_list[k]] =>
                   /\ parsed[i].ok /\ parsed[k].ok
                   /\ Before(parsed[i].value, parsed[k].value)

\* the key a mapping or JSON object holds the batch under
ContainerKey ==
    CASE adapter = "twitter" -> "tweets"
      [] adapter = "reddit" -> "posts"
      [] adapter = "news" -> "articles"

\* the agent run ended with a result object in none of whose places a structured batch
\* sits: no typed batch in the structured-output slot (for Reddit, nor as last element of
\* a list there) or as final result, no mapping whose container key holds a list, no
\* JSON text of such an object
NothingLocatable ==
    /\ call.kind = "result"
    /\ call.structured_output.t # "batch"
    /\ ~(/\ adapter = "reddit"
         /\ call.structured_output.t = "list"
         /\ Len(call.structured_output.v) > 0
         /\ call.structured_output.v[Len(call.structured_output.v)].t = "batch")
    /\ call.final_result.t # "batch"
    /\ ~(/\ call.final_result.t = "dict"
         /\ ContainerKey \in DOMAIN call.final_result.v
         /\ call.final_result.v[ContainerKey].t = "list")
    /\ ~(/\ call.final_result.t = "str"
         /\ call.final_result.v \in DOMAIN JsonDocuments
         /\ JsonDocuments[call.final_result.v].t = "dict"
         /\ ContainerKey \in DOMAIN JsonDocuments[call.final_result.v].v)

\* C16 as stated: when no structured batch can be located in the agent-run result, the
\* _parse_result of the Twitter, Reddit and DuckDuckGo adapters raises nothing and the
\* list it returns is empty.
C16_NothingLocatableGivesEmpty ==
    (adapter \in {"twitter", "reddit", "news"} /\ NothingLocatable) =>
        (pc # "raised" /\ parsed = <<>> /\ raw_list = <<>>)

\* the conditions under which a cache file counts as a usable session: it
\* exists, parses as JSON, holds a non-empty mapping as storage_state and a
\* local timestamp at most 24 hours before the current local time
CacheUsable(file, now) ==
    /\ file.exists
    /\ file.json
    /\ file.data.t = "dict"
    /\ "storage_state" \in DOMAIN file.data.v
    /\ file.data.v["storage_state"].t = "dict"
    /\ DOMAIN file.data.v["storage_state"].v # {}
    /\ "timestamp" \in DOMAIN file.data.v
    /\ file.data.v["timestamp"].t = "str"
    /\ file.data.v["timestamp"].v \in DOMAIN CacheTimestamps
    /\ ~CacheTimestamps[file.data.v["timestamp"].v].aware
    /\ now.wall - CacheTimestamps[file.data.v["timestamp"].v].wall <= TwentyFourHours

\* C17: _load_session_cache returns the stored storage_state, and keeps the
\* file, exactly when the file it read exists, parses as JSON, holds a
\* non-empty mapping as storage_state and a timestamp at most 24 hours before
\* the local time; in every other case it returns None and no file is left,
\* so a load that finds no file returns None as well.
C17_SessionCacheLoad ==
    pc = "loaded" =>
        IF CacheUsable(call.read, LocalNow(config.utc_offset))
        THEN /\ storage_state = call.read.data.v["storage_state"]
             /\ session_cache = call.read
        ELSE /\ storage_state = PyNone
             /\ session_cache = NoFile

\* an expired but otherwise well-formed file was read: it is gone and None came back
C17_Witness ==
    /\ pc = "loaded"
    /\ call.read = JsonFile(PyDict(CacheMapping(PyStr("2025-10-15T12:00:00"), BrowserStorageState)))
    /\ session_cache = NoFile
    /\ storage_state = PyNone

\* the unique column the sink is keyed by, per table
KeyColumn(tbl) ==
    CASE tbl = "sentiment_analysis" -> "url"
      [] tbl = "twitter_sentiment" -> "tweet_id"
      [] tbl = "reddit_sentiment" -> "post_url"
      [] OTHER -> "url"

KeysOf(rows, column) == {rows[i][column] : i \in 1..Len(rows)}

NamesRowTwice(payload, column) ==
    \E i, j \in 1..Len(payload) : i < j /\ payload[i][column] = payload[j][column]

\* C18: upserts are keyed by url (sentiment_analysis and any other table),
\* tweet_id (twitter_sentiment) or post_url (reddit_sentiment): after an upsert
\* no two rows share a key, a record whose key was already in the table leaves
\* the number of rows as it was and its columns in the row of that key, only
\* records with new keys add rows, and upserting the same list again changes
\* nothing.  An upsert is refused only for a list naming one key twice, and a
\* refused upsert leaves the table as it was.
C18_KeyedIdempotentUpsert ==
    LET column == KeyColumn(config.table)
    IN  /\ pc = "upserted" =>
              /\ \A i, j \in 1..Len(table) : table[i][column] = table[j][column] => i = j
              /\ KeysOf(table, column) = KeysOf(call.before, column) \cup KeysOf(call.payload, column)
              /\ Len(table) = Cardinality(KeysOf(call.before, column) \cup KeysOf(call.payload, column))
              /\ \A p \in 1..Len(call.payload) : \E i \in 1..Len(table) :
                    /\ table[i][column] = call.payload[p][column]
                    /\ \A c \in DOMAIN call.payload[p] : table[i][c] = call.payload[p][c]
              /\ \A i \in 1..Len(call.before) :
                    /\ table[i][column] = call.before[i][column]
                    /\ call.before[i][column] \notin KeysOf(call.payload, column) => table[i] = call.before[i]
              /\ adapter_upsert(table, config.table, call.payload) = Return(table)
        /\ pc = "failed" =>
              /\ NamesRowTwice(call.payload, column)
              /\ table = call.before

\* a record with a summary was upserted on a row that had none, and one without
\* summary on a row that has one: the row count is unchanged, the first row
\* carries the summary and the second keeps its own
C18_Witness ==
    /\ pc = "upserted"
    /\ config.table = "twitter_sentiment"
    /\ Len(call.before) = 2
    /\ Len(table) = 2
    /\ Len(call.payload) = 2
    /\ "summary" \notin DOMAIN call.before[1]
    /\ "summary" \in DOMAIN call.before[2]
    /\ \E p, q \in 1..2 :
          /\ call.payload[p]["tweet_id"] = call.before[1]["tweet_id"]
          /\ "summary" \in DOMAIN call.payload[p]
          /\ table[1]["summary"] = call.payload[p]["summary"]
          /\ call.payload[q]["tweet_id"] = call.before[2]["tweet_id"]
          /\ "summary" \notin DOMAIN call.payload[q]
          /\ table[2] = call.before[2]

ScoringFields == {"sentiment_score", "impact_score", "sentiment_confidence", "stance"}

Stances == {"bullish", "bearish", "neutral"}

\* C19: after the scoring stage every record that carries scoring fields has
\* sentiment_score in [-1, 1], impact_score in 1..5, sentiment_confidence in
\* [0, 1] and stance bullish, bearish or neutral, whatever the LLM returned;
\* a record whose scoring failed has all four fields absent.
C19_ScoresInRange ==
    /\ (adapter = "fetch" /\ pc \in {"storing", "done"}) =>
          \A i \in 1..Len(parsed) :
              (\E f \in ScoringFields : parsed[i][f] # PyNone) =>
                  /\ parsed[i].sentiment_score.t = "int"
                  /\ parsed[i].sentiment_score.v \in -10..10
                  /\ parsed[i].impact_score.t = "int"
                  /\ parsed[i].impact_score.v \in 1..5
                  /\ parsed[i].sentiment_confidence.t = "int"
                  /\ parsed[i].sentiment_confidence.v \in 0..10
                  /\ parsed[i].stance.t = "str"
                  /\ parsed[i].stance.v \in Stances
    /\ (adapter = "fetch" /\ call.kind = "scoring" /\ ~call.ok) =>
          \A f \in ScoringFields : parsed[call.index][f] = PyNone

\* C20: when the fetch command ends having collected at least one document
\* with the sink configured, every record created from a document is a row of
\* the sink, found by its url and carrying the record's fields.
C20_EveryRecordStored ==
    (adapter = "fetch" /\ pc = "done" /\ raw_list # <<>> /\ config.supabase_credentials) =>
        /\ Len(parsed) = Len(raw_list)
        /\ \A i \in 1..Len(parsed) : \E j \in 1..Len(table) :
              /\ table[j]["url"] = parsed[i].url
              /\ \A c \in DOMAIN model_dump(parsed[i]) : table[j][c] = parsed[i][c]

\* a failure of the transport of the external call: no response, or no agent result
TransportFailure(outcome) == outcome.kind \in {"timeout", "network", "exception"}

\* C21: a transport-level failure of the single external call of a batch
\* (webhook POST or agent run) is retried before the collection error is
\* surfaced: the first attempt, made from the start of the run, never ends the
\* run in the raised error.
C21_TransportFailureRetried ==
    [][(adapter \in TweetAdapters /\ pc = "start" /\ TransportFailure(call')) => pc' # "raised"]_vars

\* C22: Article.from_raw sets canonical_hash to canonical_hash(str(url)), and
\* two inputs that differ only in letter case or in leading/trailing
\* whitespace (the second is the first upper-cased, lower-cased or padded)
\* get the same canonical_hash, equal inputs included.
C22_HashIgnoresCaseAndSpace ==
    (adapter = "schemas" /\ pc = "hashed") =>
        /\ \A i \in 1..2 : parsed[i].canonical_hash = canonical_hash(raw_list[i])
        /\ raw_list[2] \in CaseAndSpaceVariants(raw_list[1]) =>
              parsed[1].canonical_hash = parsed[2].canonical_hash

\* the batch has left COLLECTING / has begun deduplication: the seen set has
\* been consulted for a record once the loop has consumed one
FilteringBegun == pc \in {"transform", "parsing", "done"}

DedupBegun == pc = "parsing" /\ idx >= 1

\* C23: one n8n run moves through COLLECTING, FILTERING, EXTRACTING,
\* VALIDATING/DEDUPING, DONE in that order: the outcome of the external call
\* is not replaced once filtering has begun, the filtered and truncated batch
\* is fixed before any record is extracted, no record is extracted once
\* deduplication of the batch has started, and a run that can take no further
\* step is in DONE or in a raised collection error.
C23_PhaseOrder ==
    /\ [][FilteringBegun => call' = call]_vars
    /\ [][pc = "parsing" => raw_list' = raw_list]_vars
    /\ [][DedupBegun => idx' = idx]_vars
    /\ [](pc \in {"start", "transform", "done", "raised"} \/ (pc = "parsing" /\ idx < Len(raw_list)))

\* C24: in both Twitter adapters a dropped record never adds its identity key
\* to the seen set: the seen set is the set of tweet IDs of the tweets accepted
\* so far, and a record that parses and validates, all earlier records with
\* its tweet ID having been dropped, is accepted.
C24_DroppedNeverSeen ==
    adapter \in TweetAdapters =>
        /\ seen_ids = {parsed[j].tweet_id : j \in DOMAIN parsed}
        /\ \A i \in 1..idx :
               (/\ RawTweetAcceptable(raw_list[i])
                /\ \A k \in 1..(i - 1) :
                       RawTweetId(raw_list[k]) = RawTweetId(raw_list[i]) =>
                           ~RawTweetAcceptable(raw_list[k]))
               => \E j \in DOMAIN parsed : BuiltFrom(parsed[j], raw_list[i])

\* the browser adapter dropped a record with a tweet ID and then accepted the
\* next record, which has the same ID
C24_Witness ==
    /\ adapter = "twitter"
    /\ pc \in {"parsing", "done"}
    /\ idx = 2
    /\ ~RawTweetAcceptable(raw_list[1])
    /\ RawTweetAcceptable(raw_list[2])
    /\ raw_list[1].tweet_id = raw_list[2].tweet_id
    /\ Len(parsed) = 1
    /\ BuiltFrom(parsed[1], raw_list[2])
    /\ seen_ids = {raw_list[2].tweet_id}

\* the positions of keys whose key is in the mapping with a truthy value
TruthyPositions(data, keys) ==
    {i \in 1..Len(keys) : keys[i] \in DOMAIN data /\ Truthy(data[keys[i]])}

\* C25: _extract_field returns the string form of the value of the first key,
\* in the order of keys, present in data with a truthy value; with no such key
\* it fails with an error naming every key tried when required is true and
\* returns None otherwise; it never returns an empty string.
C25_FirstTruthyKey ==
    pc = "extracted" =>
        LET hits == TruthyPositions(call.data, call.keys)
            r == parsed[1]
        IN  /\ hits # {} =>
                  /\ r.ok
                  /\ \E i \in hits :
                        /\ \A k \in hits : i <= k
                        /\ r.value = PyStr(PyStrOf(call.data[call.keys[i]]))
            /\ (hits = {} /\ call.required) =>
                  /\ ~r.ok
                  /\ \A i \in 1..Len(call.keys) : Contains(r.msg, "'" \o call.keys[i] \o "'")
            /\ (hits = {} /\ ~call.required) => (r.ok /\ r.value = PyNone)
            /\ r.ok => r.value # PyStr("")

\* {'id': '', 'tweetId': '123'} with keys ['id', 'tweetId', 'tweet_id'] gave '123'
C25_Witness ==
    /\ pc = "extracted"
    /\ call.keys = <<"id", "tweetId", "tweet_id">>
    /\ call.data = ("id" :> PyStr("")) @@ ("tweetId" :> PyStr("123"))
    /\ parsed = <<Return(PyStr("123"))>>

\* the final result in one of its accepted forms: a typed batch, a mapping
\* whose container key holds a list, or the JSON text of such a mapping
FinalAsMapping ==
    IF call.final_result.t = "str" /\ call.final_result.v \in DOMAIN JsonDocuments
    THEN JsonDocuments[call.final_result.v] ELSE call.final_result

FinalIsBatch ==
    \/ call.final_result.t = "batch"
    \/ /\ FinalAsMapping.t = "dict"
       /\ ContainerKey \in DOMAIN FinalAsMapping.v
       /\ FinalAsMapping.v[ContainerKey].t = "list"

FinalBatch ==
    IF call.final_result.t = "batch" THEN call.final_result.v
    ELSE FinalAsMapping.v[ContainerKey].v

\* the cases the claim speaks of: a typed batch in the slot, or a slot value
\* that is no batch with a final result that is absent or in an accepted form
LocateCase ==
    /\ adapter \in {"twitter", "reddit", "news"}
    /\ call.kind = "result"
    /\ pc \in {"parsing", "done", "raised"}
    /\ \/ call.structured_output.t = "batch"
       \/ /\ call.structured_output.t \in {"none", "str"}
          /\ (FinalIsBatch \/ call.final_result.t = "none")

\* C26: each adapter's _parse_result uses the typed batch of the
\* structured-output slot when there is one, without consulting final_result;
\* a slot value of another type is skipped, and final_result is then used in
\* each of its forms (typed batch, mapping with the container key, JSON text
\* of such a mapping); nothing is raised.
C26_SlotThenFinalResult ==
    LocateCase =>
        /\ pc # "raised"
        /\ raw_list = IF call.structured_output.t = "batch" THEN call.structured_output.v
                      ELSE IF FinalIsBatch THEN FinalBatch
                      ELSE <<>>

\* the array the webhook JSON carries: the JSON itself when it is an array, else
\* the array under data.tweets, else the array under a top-level tweets key
CarriedTweets(raw_data) ==
    IF raw_data.t = "list" THEN raw_data.v
    ELSE IF raw_data.t # "dict" THEN <<>>
    ELSE IF /\ "data" \in DOMAIN raw_data.v
            /\ raw_data.v["data"].t = "dict"
            /\ "tweets" \in DOMAIN raw_data.v["data"].v
            /\ raw_data.v["data"].v["tweets"].t = "list"
    THEN raw_data.v["data"].v["tweets"].v
    ELSE IF "tweets" \in DOMAIN raw_data.v /\ raw_data.v["tweets"].t = "list"
    THEN raw_data.v["tweets"].v
    ELSE <<>>

\* C27: when the webhook JSON is an array of tweets, or an object carrying the
\* array under data.tweets or under a top-level tweets key (whatever its other
\* keys), _extract_tweet_list filters exactly that array; any other top-level
\* shape gives an empty list and nothing is raised.
C27_TweetListLocated ==
    [][(adapter = "n8n" /\ pc = "transform") =>
          LET carried == CarriedTweets(call.body.v)
              filtered == apply_engagement_filters(PyList(carried), config)
          IN  IF carried = <<>> THEN pc' = "done" /\ raw_list' = <<>>
              ELSE IF ~filtered.ok THEN pc' = "raised"
              ELSE /\ pc' # "raised"
                   /\ raw_list' = SliceTo(filtered.value, config.target_count)]_vars

\* C28: within one collect() run of the browser Twitter or Reddit collector the
\* three reads of the session cache agree: the login instructions of the task
\* prompt, the storage_state handed to the browser profile and the has_cache
\* flag behind the step budget are all "cached" or all "not cached", even when
\* another process deletes or rewrites the cache file between the reads.
C28_ThreeReadsAgree ==
    (adapter \in {"twitter", "reddit"} /\ pc = "budgeted") =>
        /\ call.prompt_has_cache <=> (storage_state # PyNone)
        /\ call.prompt_has_cache <=> (call.max_steps = max_steps(adapter, TRUE))

\* a save that failed while a session file was on disk
SaveFailed ==
    /\ pc = "saved"
    /\ call.outcome \in {"state raised", "dump raised"}
    /\ call.before.exists

\* C29: when _save_session_cache fails (the storage state cannot be obtained
\* or cannot be serialized) the session file is left as it was, and a
\* _load_session_cache issued next, within 24 hours of the earlier session,
\* still returns the earlier storage_state.
C29_FailedSaveKeepsCache ==
    /\ [](SaveFailed => session_cache = call.before)
    /\ [][(/\ SaveFailed
           /\ CacheUsable(call.before, LocalNow(config.utc_offset))
           /\ pc' = "loaded")
          => storage_state' = call.before.data.v["storage_state"]]_vars

\* the timestamp text of a post reads as an ISO-8601 instant
StampReadable(ts) == ReplaceZ(ts) \in DOMAIN IsoInstants

\* the instant, on the UTC time scale, that a readable timestamp text denotes
StampInstant(ts) == IsoInstants[ReplaceZ(ts)].wall - IsoInstants[ReplaceZ(ts)].off

OneWeekAgo == Now - OneWeek

\* C30: every post the Reddit adapter accepts has posted_at no earlier than 7
\* days before the normalization time of its batch: a post whose timestamp
\* parses to an instant more than one week old is dropped, and a post accepted
\* by the "assume now" fallback carries the normalization time.
C30_AcceptedWithinOneWeek ==
    adapter = "reddit" =>
        \A j \in DOMAIN parsed :
            /\ parsed[j].posted_at.wall - parsed[j].posted_at.off >= OneWeekAgo
            /\ \E i \in 1..idx :
                  /\ raw_list[i].post_id = parsed[j].post_id
                  /\ raw_list[i].title = parsed[j].title
                  /\ IF StampReadable(raw_list[i].timestamp)
                     THEN /\ StampInstant(raw_list[i].timestamp) >= OneWeekAgo
                          /\ parsed[j].posted_at.wall - parsed[j].posted_at.off
                                = StampInstant(raw_list[i].timestamp)
                     ELSE parsed[j].posted_at = NowUtc

\* C30 witness: of two posts, the one stamped exactly seven days back was
\* accepted and the one stamped an hour earlier (written with a +02:00 offset) was dropped
C30_Witness ==
    /\ adapter = "reddit"
    /\ pc = "done"
    /\ Len(raw_list) = 2
    /\ raw_list[1].timestamp = "2025-10-10T00:00:00Z"
    /\ raw_list[2].timestamp = "2025-10-10T01:00:00+02:00"
    /\ Len(parsed) = 1
    /\ parsed[1].post_id = "1o5wk"
    /\ parsed[1].posted_at = Aware(777600, 0)

====
